---- MODULE Spec2Model ----
(***************************************************************************)
(* Personal Growth Diary (DEADNOTE): the express/better-sqlite3 server as  *)
(* a state machine.  The tables of database/schema.sql are sets of rows,   *)
(* every route handler is one action (the requireAuth middleware of        *)
(* server.js included), and the statistics helpers are operators.          *)
(*                                                                         *)
(* Conventions.  An optional request field or a nullable column is a set   *)
(* with at most one element ({} is undefined / NULL).  A calendar date is  *)
(* the number of the UTC day, the clock `now` counts hours, so that        *)
(* new Date().toISOString().split('T')[0] is now \div 24.  Free-text       *)
(* columns no handler branches on (description, details, mood_note, the    *)
(* created_at/updated_at stamps) are left out of the rows; created_at      *)
(* orders rows as their ids do.                                            *)
(***************************************************************************)
EXTENDS Integers, Sequences, FiniteSets, TLC

\* ---------------------------------------------------------------- bounds
MaxGoals == 2
MaxMilestones == 2
MaxLog == 1
MaxJournal == 2
MaxImages == 1
MaxTodos == 2
NumClients == 3

VARIABLES
    users,                  \* table users
    notification_settings,  \* table notification_settings
    session,                \* express-session store: client -> {} or {[userId, username]}
    journal_entries,        \* table journal_entries
    journal_images,         \* table journal_images
    goals,                  \* table goals
    goal_milestones,        \* table goal_milestones
    todos,                  \* table todos
    activity_log,           \* table activity_log
    seq,                    \* sqlite_sequence: last AUTOINCREMENT id of each table
    now,                    \* wall clock, hours (UTC)
    zone,                   \* the time zone the server process runs in
    inflight,               \* requests in progress: suspended at an await, or inside a loop
    last                    \* the last request and the response it was given

vars == <<users, notification_settings, session, journal_entries, journal_images, goals,
          goal_milestones, todos, activity_log, seq, now, zone, inflight, last>>

authVars == <<users, notification_settings, session>>
journalVars == <<journal_entries, journal_images>>
goalVars == <<goals, goal_milestones>>
todoVars == <<todos>>
envVars == <<now, zone, inflight>>

Clients == 1..NumClients
HoursPerDay == 24

\* new Date().toISOString().split('T')[0]
Today == now \div HoursPerDay

\* ------------------------------------------------------------- responses
\* op: the route; c: the client; id, id2: the path's ids (0 when the response
\* is given before they are read); flag: the boolean of the body; rows: the
\* rows of the body in the order sent; sub: the milestone or image rows sent
\* with them; input: the query string or the body of the request, kept for
\* the routes whose properties refer to it ({} otherwise)
NoRows == <<>>

Reply(op, c, status, id, id2, flag, rows, sub) ==
    [op |-> op, c |-> c, status |-> status, id |-> id, id2 |-> id2,
     flag |-> flag, rows |-> rows, sub |-> sub, input |-> {}]

Response(op, c, status, id, id2, flag, rows) ==
    Reply(op, c, status, id, id2, flag, rows, NoRows)

NoRequest == Response("none", 0, 0, 0, 0, FALSE, NoRows)

\* the response together with the request body it answers
WithInput(r, body) == [r EXCEPT !.input = {body}]

\* ------------------------------------------------------------ middleware
\* server.js: requireAuth lets a request through iff the session holds a userId
RequireAuth(c) == session[c] # {}

SessionUserId(c) == (CHOOSE s \in session[c] : TRUE).userId

SessionUsername(c) == (CHOOSE s \in session[c] : TRUE).username

Unauthorized(op, c) ==
    /\ last' = Response(op, c, 401, 0, 0, FALSE, NoRows)
    /\ UNCHANGED <<users, notification_settings, session, journal_entries, journal_images, goals,
                   goal_milestones, todos, activity_log, seq, now, zone, inflight>>

\* ------------------------------------------------------------------ rows
Row(table, id) == CHOOSE r \in table : r.id = id

HasRow(table, id) == \E r \in table : r.id = id

\* express-validator trim() on the titles the model draws
Trim(s) == IF s = " " THEN "" ELSE s

\* INSERT INTO activity_log (user_id, activity_type, details): the date column
\* takes its default, date('now')
LogRow(id, userId, type) ==
    [id |-> id, user_id |-> userId, activity_type |-> type, activity_date |-> Today]

LogHasRoom == seq.activity_log < MaxLog

\* A date string of a request or a TEXT date column.  The routes write
\* 'YYYY-MM-DD'; body('entry_date').optional().isDate() also accepts
\* 'YYYY/MM/DD', and PUT /api/journal/:id validates no entry_date at all.
\* All dates of the model lie in one year.
DashDate(day) == [day |-> day, slash |-> FALSE]
SlashDate(day) == [day |-> day, slash |-> TRUE]

\* SQLite's text comparison a < b: equal up to the year, then '-' < '/'
DateStrLess(a, b) == (a.slash = b.slash /\ a.day < b.day) \/ (~a.slash /\ b.slash)

DateStrLeq(a, b) == a = b \/ DateStrLess(a, b)

\* an integer that orders date strings as DateStrLess does
DateStrKey(a) == (IF a.slash THEN 100000 ELSE 0) + a.day

\* Math.round(x) for x = num / den >= 0: the nearest integer, a half going up
Round(num, den) == (2 * num + den) \div (2 * den)

\* =================================================================== goals
\* routes/goals.js.  The model draws request fields from these sets.
GoalTypes == {"short-term", "long-term"}
GoalStatuses == {"active", "completed", "paused", "cancelled"}

TitleInputs == {"", "g"}
GoalTypeInputs == {"short-term", "yearly"}
MilestoneInputs == {<<>>, <<" ", "m">>}
GoalUpdateBodies ==
    { [title |-> {},    progress |-> {30},  status |-> {}],
      [title |-> {},    progress |-> {101}, status |-> {}],
      [title |-> {"g"}, progress |-> {},    status |-> {"active"}],
      [title |-> {},    progress |-> {},    status |-> {"weekly"}],
      [title |-> {" "}, progress |-> {},    status |-> {}] }

\* the rows goals.js inserts; the other columns take the schema's defaults
GoalRow(id, userId, title, goalType) ==
    [id |-> id, user_id |-> userId, title |-> title, goal_type |-> goalType,
     progress |-> 0, status |-> "active", target_date |-> {}]

MilestoneRow(id, goalId, title) ==
    [id |-> id, goal_id |-> goalId, title |-> title, is_completed |-> 0,
     completed_at |-> {}]

MutOwnedGoalsOfAnyone(userId) == goals

\* SELECT * FROM goals WHERE id = ? AND user_id = ?
OwnedGoals(userId) == {g \in goals : g.user_id = userId}

OwnsGoal(userId, id) == \E g \in goals : g.id = id /\ g.user_id = userId

MilestonesOf(ms, goalId) == {m \in ms : m.goal_id = goalId}

\* POST /api/goals: milestones.forEach(m => { if (m.title && m.title.trim()) insert })
ValidMilestoneTitles(milestones) == SelectSeq(milestones, LAMBDA t : Trim(t) # "")

GoalCreateValid(title, goalType) == title # "" /\ goalType \in GoalTypes

GoalCreate(c, title, goalType, milestones) ==
    IF ~RequireAuth(c) THEN Unauthorized("goal_create", c)
    ELSE IF ~GoalCreateValid(title, goalType) THEN
        /\ last' = WithInput(Response("goal_create", c, 400, 0, 0, FALSE, NoRows),
                              [title |-> title, goal_type |-> goalType])
        /\ UNCHANGED <<authVars, journalVars, goalVars, todoVars, activity_log, seq, envVars>>
    ELSE
        LET goalId == seq.goals + 1
            titles == ValidMilestoneTitles(milestones)
        IN  /\ seq.goals < MaxGoals
            /\ seq.goal_milestones + Len(titles) <= MaxMilestones
            /\ goals' = goals \cup {GoalRow(goalId, SessionUserId(c), Trim(title), goalType)}
            /\ goal_milestones' = goal_milestones \cup
                   { MilestoneRow(seq.goal_milestones + i, goalId, Trim(titles[i])) :
                       i \in 1..Len(titles) }
            /\ seq' = [seq EXCEPT !.goals = goalId,
                                  !.goal_milestones = @ + Len(titles)]
            /\ last' = WithInput(Response("goal_create", c, 201, goalId, 0, FALSE, NoRows),
                                  [title |-> title, goal_type |-> goalType])
            /\ UNCHANGED <<authVars, journalVars, todoVars, activity_log, envVars>>

\* validators that let any progress through
MutProgressUnchecked(body) ==
    /\ \A t \in body.title : Trim(t) # ""
    /\ \A s \in body.status : s \in GoalStatuses

\* PUT /api/goals/:id validators: optional title (trimmed) not empty, optional
\* progress an integer in 0..100, optional status one of the four
GoalUpdateValid(body) ==
    /\ \A t \in body.title : Trim(t) # ""
    /\ \A p \in body.progress : p >= 0 /\ p <= 100
    /\ \A s \in body.status : s \in GoalStatuses

UpdatedGoal(g, body) ==
    [g EXCEPT !.title = IF body.title = {} THEN @ ELSE Trim(CHOOSE t \in body.title : TRUE),
              !.progress = IF body.progress = {} THEN @ ELSE CHOOSE p \in body.progress : TRUE,
              !.status = IF body.status = {} THEN @ ELSE CHOOSE s \in body.status : TRUE]

GoalUpdate(c, id, body) ==
    IF ~RequireAuth(c) THEN Unauthorized("goal_update", c)
    ELSE IF ~GoalUpdateValid(body) THEN
        /\ last' = WithInput(Response("goal_update", c, 400, id, 0, FALSE, NoRows), body)
        /\ UNCHANGED <<authVars, journalVars, goalVars, todoVars, activity_log, seq, envVars>>
    ELSE IF ~OwnsGoal(SessionUserId(c), id) THEN
        /\ last' = WithInput(Response("goal_update", c, 404, id, 0, FALSE, NoRows), body)
        /\ UNCHANGED <<authVars, journalVars, goalVars, todoVars, activity_log, seq, envVars>>
    ELSE
        /\ body.progress # {} => LogHasRoom
        /\ activity_log' =
               IF body.progress # {}
               THEN activity_log \cup
                        {LogRow(seq.activity_log + 1, SessionUserId(c), "goal_progress")}
               ELSE activity_log
        /\ seq' = IF body.progress # {} THEN [seq EXCEPT !.activity_log = @ + 1] ELSE seq
        \* UPDATE goals SET ... WHERE id = ?
        /\ goals' = {IF g.id = id THEN UpdatedGoal(g, body) ELSE g : g \in goals}
        /\ last' = WithInput(Response("goal_update", c, 200, id, 0, FALSE, NoRows), body)
        /\ UNCHANGED <<authVars, journalVars, goal_milestones, todoVars, envVars>>

\* a delete that never looks the goal up
MutGoalDeleteWithoutLookup(c, id) ==
    IF ~RequireAuth(c) THEN Unauthorized("goal_delete", c)
    ELSE
        /\ goals' = {g \in goals : g.id # id \/ g.user_id # SessionUserId(c)}
        /\ goal_milestones' = goal_milestones
        /\ last' = Response("goal_delete", c, 200, id, 0, FALSE, NoRows)
        /\ UNCHANGED <<authVars, journalVars, todoVars, activity_log, seq, envVars>>

\* DELETE /api/goals/:id; goal_milestones.goal_id is ON DELETE CASCADE
GoalDelete(c, id) ==
    IF ~RequireAuth(c) THEN Unauthorized("goal_delete", c)
    ELSE IF ~OwnsGoal(SessionUserId(c), id) THEN
        /\ last' = Response("goal_delete", c, 404, id, 0, FALSE, NoRows)
        /\ UNCHANGED <<authVars, journalVars, goalVars, todoVars, activity_log, seq, envVars>>
    ELSE
        /\ goals' = {g \in goals : g.id # id}
        /\ goal_milestones' = {m \in goal_milestones : m.goal_id # id}
        /\ last' = Response("goal_delete", c, 200, id, 0, FALSE, NoRows)
        /\ UNCHANGED <<authVars, journalVars, todoVars, activity_log, seq, envVars>>

\* POST /api/goals/:id/milestones
MilestoneAdd(c, id, title) ==
    IF ~RequireAuth(c) THEN Unauthorized("milestone_add", c)
    ELSE IF title = "" THEN
        /\ last' = Response("milestone_add", c, 400, 0, 0, FALSE, NoRows)
        /\ UNCHANGED <<authVars, journalVars, goalVars, todoVars, activity_log, seq, envVars>>
    ELSE IF ~OwnsGoal(SessionUserId(c), id) THEN
        /\ last' = Response("milestone_add", c, 404, id, 0, FALSE, NoRows)
        /\ UNCHANGED <<authVars, journalVars, goalVars, todoVars, activity_log, seq, envVars>>
    ELSE
        /\ seq.goal_milestones < MaxMilestones
        /\ goal_milestones' = goal_milestones \cup
               {MilestoneRow(seq.goal_milestones + 1, id, Trim(title))}
        /\ seq' = [seq EXCEPT !.goal_milestones = @ + 1]
        /\ last' = Response("milestone_add", c, 201, id, seq.goal_milestones + 1, FALSE, NoRows)
        /\ UNCHANGED <<authVars, journalVars, goals, todoVars, activity_log, envVars>>

\* SELECT gm.* FROM goal_milestones gm JOIN goals g ON gm.goal_id = g.id
\*  WHERE gm.id = ? AND g.user_id = ?
OwnsMilestone(userId, milestoneId) ==
    \E m \in goal_milestones : m.id = milestoneId /\ OwnsGoal(userId, m.goal_id)

\* UPDATE goal_milestones SET is_completed = ?, completed_at = ? WHERE id = ?
ToggledMilestones(ms, milestoneId) ==
    { IF m.id = milestoneId
      THEN [m EXCEPT !.is_completed = IF m.is_completed # 0 THEN 0 ELSE 1,
                     !.completed_at = IF m.is_completed # 0 THEN {} ELSE {Today}]
      ELSE m : m \in ms }

\* SELECT COUNT(*) as total, SUM(is_completed) as completed
\*  FROM goal_milestones WHERE goal_id = ?
MilestoneTotal(ms, goalId) == Cardinality(MilestonesOf(ms, goalId))

MilestoneCompleted(ms, goalId) ==
    Cardinality({m \in MilestonesOf(ms, goalId) : m.is_completed = 1})

\* the completed milestones as a percentage that forgets the total
MutProgressUndivided(ms, goalId) == 100 * MilestoneCompleted(ms, goalId)

\* Math.round((stats.completed / stats.total) * 100)
MilestoneProgress(ms, goalId) ==
    Round(100 * MilestoneCompleted(ms, goalId), MilestoneTotal(ms, goalId))

\* the goal whose progress the toggle recomputes: req.params.goalId
RecomputedGoal(goalId, milestoneId) == goalId

\* PATCH /api/goals/:goalId/milestones/:milestoneId/toggle
MilestoneToggle(c, goalId, milestoneId) ==
    IF ~RequireAuth(c) THEN Unauthorized("milestone_toggle", c)
    ELSE IF ~OwnsMilestone(SessionUserId(c), milestoneId) THEN
        /\ last' = Response("milestone_toggle", c, 404, goalId, milestoneId, FALSE, NoRows)
        /\ UNCHANGED <<authVars, journalVars, goalVars, todoVars, activity_log, seq, envVars>>
    ELSE
        LET ms == ToggledMilestones(goal_milestones, milestoneId)
            target == RecomputedGoal(goalId, milestoneId)
        IN  /\ goal_milestones' = ms
            /\ goals' = IF MilestoneTotal(ms, target) > 0
                        THEN { IF g.id = target
                               THEN [g EXCEPT !.progress = MilestoneProgress(ms, target)]
                               ELSE g : g \in goals }
                        ELSE goals
            /\ last' = Response("milestone_toggle", c, 200, goalId, milestoneId,
                                Row(ms, milestoneId).is_completed = 1, NoRows)
            /\ UNCHANGED <<authVars, journalVars, todoVars, activity_log, seq, envVars>>

\* a delete that recomputes the progress of the goal from what is left
MutMilestoneDeleteRecomputes(c, goalId, milestoneId) ==
    IF ~RequireAuth(c) \/ ~OwnsMilestone(SessionUserId(c), milestoneId)
    THEN Unauthorized("milestone_delete", c)
    ELSE
        LET ms == {m \in goal_milestones : m.id # milestoneId}
            target == Row(goal_milestones, milestoneId).goal_id
        IN  /\ goal_milestones' = ms
            /\ goals' = { IF g.id = target /\ MilestoneTotal(ms, target) > 0
                          THEN [g EXCEPT !.progress = MilestoneProgress(ms, target)]
                          ELSE g : g \in goals }
            /\ last' = Response("milestone_delete", c, 200, goalId, milestoneId, FALSE, NoRows)
            /\ UNCHANGED <<authVars, journalVars, todoVars, activity_log, seq, envVars>>

\* DELETE /api/goals/:goalId/milestones/:milestoneId
MilestoneDelete(c, goalId, milestoneId) ==
    IF ~RequireAuth(c) THEN Unauthorized("milestone_delete", c)
    ELSE IF ~OwnsMilestone(SessionUserId(c), milestoneId) THEN
        /\ last' = Response("milestone_delete", c, 404, goalId, milestoneId, FALSE, NoRows)
        /\ UNCHANGED <<authVars, journalVars, goalVars, todoVars, activity_log, seq, envVars>>
    ELSE
        /\ goal_milestones' = {m \in goal_milestones : m.id # milestoneId}
        /\ last' = Response("milestone_delete", c, 200, goalId, milestoneId, FALSE, NoRows)
        /\ UNCHANGED <<authVars, journalVars, goals, todoVars, activity_log, seq, envVars>>

\* ------------------------------------------------- the goals specification
\* The registered users and their sessions as the auth routes leave them:
\* users 1 and 2 registered, client 1 logged in as user 1, client 2 as user 2,
\* every other client without a session.
UserNames == <<"alice", "bob", "carol", "dave">>
NumUsers == 2

\* bcrypt.hash and bcrypt.compare
Hash(password) == <<"bcrypt", password>>

UserRow(id, username, password) ==
    [id |-> id, username |-> username, password_hash |-> Hash(password)]

\* INSERT INTO notification_settings (user_id): the schema's defaults
SettingsRow(id, userId) ==
    [id |-> id, user_id |-> userId, reminder_enabled |-> 1,
     motivation_enabled |-> 1, pending_threshold |-> 3]

MutNoSession(userId, username) == {}

SessionOf(userId, username) == {[userId |-> userId, username |-> username]}

SeqZero ==
    [users |-> 0, notification_settings |-> 0, journal_entries |-> 0, journal_images |-> 0,
     goals |-> 0,
     goal_milestones |-> 0, todos |-> 0, activity_log |-> 0]

RegisteredInit ==
    /\ users = {UserRow(u, UserNames[u], "secret1") : u \in 1..NumUsers}
    /\ notification_settings = {SettingsRow(u, u) : u \in 1..NumUsers}
    /\ session = [c \in Clients |->
                     IF c <= NumUsers THEN SessionOf(c, UserNames[c]) ELSE {}]
    /\ inflight = {}
    /\ last = NoRequest

LoggedInInit ==
    /\ RegisteredInit
    /\ journal_entries = {}
    /\ journal_images = {}
    /\ goals = {}
    /\ goal_milestones = {}
    /\ todos = {}
    /\ activity_log = {}
    /\ seq = [SeqZero EXCEPT !.users = NumUsers, !.notification_settings = NumUsers]

Init ==
    /\ LoggedInInit
    /\ now = 0
    /\ zone = "UTC"

GoalIds == 1..MaxGoals
MilestoneIds == 1..MaxMilestones

Next ==
    \/ \E c \in Clients, t \in TitleInputs, ty \in GoalTypeInputs, ms \in MilestoneInputs :
          GoalCreate(c, t, ty, ms)
    \/ \E c \in Clients, id \in GoalIds, b \in GoalUpdateBodies : GoalUpdate(c, id, b)
    \/ \E c \in Clients, id \in GoalIds : GoalDelete(c, id)
    \/ \E c \in Clients, id \in GoalIds, t \in TitleInputs : MilestoneAdd(c, id, t)
    \/ \E c \in Clients, g \in GoalIds, m \in MilestoneIds : MilestoneToggle(c, g, m)
    \/ \E c \in Clients, g \in GoalIds, m \in MilestoneIds : MilestoneDelete(c, g, m)

Spec == Init /\ [][Next]_vars

\* ============================================================== queries
\* ORDER BY: the rows of S as a sequence, ascending in key[r]
RECURSIVE SortedByKey(_, _)
SortedByKey(S, key) ==
    IF S = {} THEN <<>>
    ELSE LET m == CHOOSE r \in S : \A q \in S : key[r] <= key[q]
         IN  <<m>> \o SortedByKey(S \ {m}, key)

\* rows in rowid order (a SELECT without ORDER BY over the primary key)
ByRowId(S) == SortedByKey(S, [r \in S |-> r.id])

RECURSIVE Flatten(_)
Flatten(seqs) == IF seqs = <<>> THEN <<>> ELSE Head(seqs) \o Flatten(Tail(seqs))

Range(f) == {f[i] : i \in DOMAIN f}

\* column LIKE '%term%' on the texts the model draws
Like(text, term) == term = text \/ (term = "no" /\ text = "note")

\* ---------------------------------------------------------------- journal
Moods == {"amazing", "good", "neutral", "bad", "terrible"}

JournalRow(id, userId, title, content, mood, entryDate) ==
    [id |-> id, user_id |-> userId, title |-> title, content |-> content,
     mood |-> mood, entry_date |-> entryDate]

\* GET /api/journal: WHERE j.user_id = ? and the optional filters
OwnedJournal(userId) == {j \in journal_entries : j.user_id = userId}

JournalFilter(j, q) ==
    /\ \A d \in q.startDate : \E e \in j.entry_date : DateStrLeq(d, e)
    /\ \A d \in q.endDate : \E e \in j.entry_date : DateStrLeq(e, d)
    /\ \A m \in q.mood : j.mood = {m}
    /\ \A t \in q.search : (\E x \in j.title : Like(x, t)) \/ Like(j.content, t)

\* ORDER BY j.entry_date DESC, j.created_at DESC (NULL dates sort last)
NullKey == 0 - 1
ColumnKey(column) ==
    IF column = {} THEN NullKey ELSE DateStrKey(CHOOSE e \in column : TRUE)

JournalOrder(S) ==
    SortedByKey(S, [j \in S |-> 0 - (1000 * ColumnKey(j.entry_date) + j.id)])

\* LEFT JOIN journal_images ji ON j.id = ji.journal_id of one entry;
\* SELECT * FROM journal_images WHERE journal_id = ?
ImageRow(id, journalId) == [id |-> id, journal_id |-> journalId, filename |-> <<"upload", id>>]

ImagesOf(journalId) == ByRowId({i \in journal_images : i.journal_id = journalId})

JournalList(c, q) ==
    IF ~RequireAuth(c) THEN Unauthorized("journal_list", c)
    ELSE
        /\ LET rows == JournalOrder({j \in OwnedJournal(SessionUserId(c)) : JournalFilter(j, q)})
           IN  last' = [Reply("journal_list", c, 200, 0, 0, FALSE, rows,
                              Flatten([i \in DOMAIN rows |-> ImagesOf(rows[i].id)]))
                           EXCEPT !.input = {q}]
        /\ UNCHANGED <<authVars, journalVars, goalVars, todoVars, activity_log, seq, envVars>>

\* GET /api/journal/:id
OwnsJournal(userId, id) == \E j \in journal_entries : j.id = id /\ j.user_id = userId

JournalGet(c, id) ==
    IF ~RequireAuth(c) THEN Unauthorized("journal_get", c)
    ELSE
        /\ last' = IF OwnsJournal(SessionUserId(c), id)
                   THEN Reply("journal_get", c, 200, id, 0, FALSE, <<Row(journal_entries, id)>>,
                              ImagesOf(id))
                   ELSE Response("journal_get", c, 404, id, 0, FALSE, NoRows)
        /\ UNCHANGED <<authVars, journalVars, goalVars, todoVars, activity_log, seq, envVars>>

\* ------------------------------------------------------------------ goals
\* GET /api/goals: WHERE g.user_id = ? [AND goal_type = ?] [AND status = ?]
\* ORDER BY g.created_at DESC; each goal is sent with its milestones
GoalFilter(g, q) ==
    /\ \A t \in q.type : g.goal_type = t
    /\ \A st \in q.status : g.status = st

GoalOrder(S) == SortedByKey(S, [g \in S |-> 0 - g.id])

\* SELECT * FROM goal_milestones WHERE goal_id = ? ORDER BY created_at
MilestoneList(goalId) == ByRowId(MilestonesOf(goal_milestones, goalId))

GoalList(c, q) ==
    IF ~RequireAuth(c) THEN Unauthorized("goal_list", c)
    ELSE
        LET rows == GoalOrder({g \in OwnedGoals(SessionUserId(c)) : GoalFilter(g, q)})
        IN  /\ last' = Reply("goal_list", c, 200, 0, 0, FALSE, rows,
                             Flatten([i \in DOMAIN rows |-> MilestoneList(rows[i].id)]))
            /\ UNCHANGED <<authVars, journalVars, goalVars, todoVars, activity_log, seq, envVars>>

\* GET /api/goals/:id
GoalGet(c, id) ==
    IF ~RequireAuth(c) THEN Unauthorized("goal_get", c)
    ELSE
        /\ last' = IF OwnsGoal(SessionUserId(c), id)
                   THEN Reply("goal_get", c, 200, id, 0, FALSE, <<Row(goals, id)>>,
                              MilestoneList(id))
                   ELSE Response("goal_get", c, 404, id, 0, FALSE, NoRows)
        /\ UNCHANGED <<authVars, journalVars, goalVars, todoVars, activity_log, seq, envVars>>

\* ------------------------------------------------------------------ todos
Priorities == {"low", "medium", "high", "urgent"}

TodoRow(id, userId, title, priority, scheduledDate) ==
    [id |-> id, user_id |-> userId, title |-> title, priority |-> priority,
     scheduled_date |-> scheduledDate, is_completed |-> 0, completed_at |-> {}]

\* CASE priority WHEN 'urgent' THEN 1 WHEN 'high' THEN 2 WHEN 'medium' THEN 3 ELSE 4 END
PriorityRank(p) ==
    IF p = "urgent" THEN 1 ELSE IF p = "high" THEN 2 ELSE IF p = "medium" THEN 3 ELSE 4

OwnedTodos(userId) == {t \in todos : t.user_id = userId}

\* GET /api/todos: the optional filters date, startDate, endDate, completed, priority
TodoFilter(t, q) ==
    /\ \A d \in q.date : t.scheduled_date = d
    /\ \A d \in q.startDate : DateStrLeq(d, t.scheduled_date)
    /\ \A d \in q.endDate : DateStrLeq(t.scheduled_date, d)
    /\ \A b \in q.completed : t.is_completed = (IF b = "true" THEN 1 ELSE 0)
    /\ \A p \in q.priority : t.priority = p

\* ORDER BY scheduled_date ASC, CASE priority ... END, created_at ASC
TodoOrder(S) ==
    SortedByKey(S, [t \in S |->
        10000 * DateStrKey(t.scheduled_date) + 1000 * PriorityRank(t.priority) + t.id])

\* ORDER BY CASE priority ... END, created_at ASC
TodoPriorityOrder(S) ==
    SortedByKey(S, [t \in S |-> 1000 * PriorityRank(t.priority) + t.id])

\* ORDER BY scheduled_date ASC
TodoDateOrder(S) == SortedByKey(S, [t \in S |-> 10000 * DateStrKey(t.scheduled_date) + t.id])

TodoList(c, q) ==
    IF ~RequireAuth(c) THEN Unauthorized("todo_list", c)
    ELSE
        /\ last' = WithInput(
                       Response("todo_list", c, 200, 0, 0, FALSE,
                           TodoOrder({t \in OwnedTodos(SessionUserId(c)) : TodoFilter(t, q)})),
                       q)
        /\ UNCHANGED <<authVars, journalVars, goalVars, todoVars, activity_log, seq, envVars>>

\* GET /api/todos/today
TodoToday(c) ==
    IF ~RequireAuth(c) THEN Unauthorized("todo_today", c)
    ELSE
        /\ last' = Response("todo_today", c, 200, 0, 0, FALSE,
                       TodoPriorityOrder({t \in OwnedTodos(SessionUserId(c)) :
                                             t.scheduled_date = DashDate(Today)}))
        /\ UNCHANGED <<authVars, journalVars, goalVars, todoVars, activity_log, seq, envVars>>

\* WHERE user_id = ? AND scheduled_date < ? AND is_completed = 0
OverdueTodos(userId, today) ==
    {t \in todos : /\ t.user_id = userId
                   /\ DateStrLess(t.scheduled_date, DashDate(today))
                   /\ t.is_completed = 0}

\* GET /api/todos/overdue
TodoOverdue(c) ==
    IF ~RequireAuth(c) THEN Unauthorized("todo_overdue", c)
    ELSE
        /\ last' = Response("todo_overdue", c, 200, 0, 0, FALSE,
                       TodoDateOrder(OverdueTodos(SessionUserId(c), Today)))
        /\ UNCHANGED <<authVars, journalVars, goalVars, todoVars, activity_log, seq, envVars>>

\* GET /api/notifications/pending: today's incomplete todos by priority, the
\* overdue todos, and the active goals whose target date is within 7 days
PendingTodos(userId, today) ==
    {t \in todos : /\ t.user_id = userId
                   /\ t.scheduled_date = DashDate(today)
                   /\ t.is_completed = 0}

DeadlineDays == 7

\* WHERE user_id = ? AND status = 'active'
\*   AND target_date BETWEEN ? AND date(?, '+7 days')
UpcomingGoals(userId, today) ==
    {g \in goals : /\ g.user_id = userId
                   /\ g.status = "active"
                   /\ \E d \in g.target_date : /\ DateStrLeq(DashDate(today), d)
                                               /\ DateStrLeq(d, DashDate(today + DeadlineDays))}

NotificationsPending(c) ==
    IF ~RequireAuth(c) THEN Unauthorized("notifications_pending", c)
    ELSE
        /\ last' = Response("notifications_pending", c, 200, 0, 0, FALSE,
                       SortedByKey(PendingTodos(SessionUserId(c), Today),
                                   [t \in PendingTodos(SessionUserId(c), Today) |->
                                       1000 * PriorityRank(t.priority) + t.id])
                       \o ByRowId(OverdueTodos(SessionUserId(c), Today))
                       \o ByRowId(UpcomingGoals(SessionUserId(c), Today)))
        /\ UNCHANGED <<authVars, journalVars, goalVars, todoVars, activity_log, seq, envVars>>

\* GET /api/stats/export: journals, goals, todos of the user and the
\* milestones joined to the user's goals
ExportMilestones(userId) ==
    {m \in goal_milestones : \E g \in goals : g.id = m.goal_id /\ g.user_id = userId}

StatsExport(c) ==
    IF ~RequireAuth(c) THEN Unauthorized("stats_export", c)
    ELSE
        /\ last' = Reply("stats_export", c, 200, 0, 0, FALSE,
                         ByRowId(OwnedJournal(SessionUserId(c)))
                             \o ByRowId(OwnedGoals(SessionUserId(c)))
                             \o ByRowId(OwnedTodos(SessionUserId(c))),
                         ByRowId(ExportMilestones(SessionUserId(c))))
        /\ UNCHANGED <<authVars, journalVars, goalVars, todoVars, activity_log, seq, envVars>>

\* ------------------------------------------------- the read specification
\* A database as the create and update routes leave it: MaxJournal entries,
\* MaxGoals goals, MaxMilestones milestones and MaxTodos todos, each owned by
\* any of the users, with dates around today; the requests are the queries.

JournalIds == 1..MaxJournal
TodoIds == 1..MaxTodos
UserIds == 1..NumUsers

SampleDay == 1
SamplePriority(i) == IF i % 2 = 1 THEN "low" ELSE "urgent"

SampleJournal(i, userId) ==
    JournalRow(i, userId, IF i % 2 = 1 THEN {"note"} ELSE {}, IF i % 2 = 1 THEN "plan" ELSE "note",
               IF i % 2 = 1 THEN {"good"} ELSE {}, {DashDate(SampleDay - (i % 2))})

SampleGoal(i, userId) ==
    [GoalRow(i, userId, "g", IF i % 2 = 1 THEN "short-term" ELSE "long-term")
        EXCEPT !.target_date = IF i % 2 = 1 THEN {DashDate(SampleDay + 3)} ELSE {}]

SampleTodo(i, userId) ==
    TodoRow(i, userId, "t", SamplePriority(i), DashDate(SampleDay - (i % 2)))

ReadInit ==
    /\ RegisteredInit
    /\ now = SampleDay * HoursPerDay
    /\ zone = "UTC"
    /\ activity_log = {}
    /\ \E jo \in [JournalIds -> UserIds], go \in [GoalIds -> UserIds],
          mg \in [MilestoneIds -> GoalIds], to \in [TodoIds -> UserIds] :
          /\ journal_entries = {SampleJournal(i, jo[i]) : i \in JournalIds}
          /\ journal_images = {ImageRow(1, 1)}
          /\ goals = {SampleGoal(i, go[i]) : i \in GoalIds}
          /\ goal_milestones = {MilestoneRow(i, mg[i], "m") : i \in MilestoneIds}
          /\ todos = {SampleTodo(i, to[i]) : i \in TodoIds}
    /\ seq = [SeqZero EXCEPT !.users = NumUsers, !.notification_settings = NumUsers,
                             !.journal_entries = MaxJournal, !.journal_images = 1,
                             !.goals = MaxGoals,
                             !.goal_milestones = MaxMilestones, !.todos = MaxTodos]

NoFilter == {}

JournalQueries ==
    { [startDate |-> NoFilter, endDate |-> NoFilter, mood |-> NoFilter, search |-> NoFilter],
      [startDate |-> {DashDate(SampleDay)}, endDate |-> {DashDate(SampleDay)},
       mood |-> NoFilter, search |-> NoFilter],
      [startDate |-> NoFilter, endDate |-> NoFilter, mood |-> {"good"}, search |-> {"no"}] }

GoalQueries ==
    { [type |-> NoFilter, status |-> NoFilter],
      [type |-> {"long-term"}, status |-> {"active"}] }

TodoQueries ==
    { [date |-> NoFilter, startDate |-> NoFilter, endDate |-> NoFilter,
       completed |-> NoFilter, priority |-> NoFilter],
      [date |-> {DashDate(SampleDay)}, startDate |-> NoFilter, endDate |-> NoFilter,
       completed |-> {"false"}, priority |-> NoFilter],
      [date |-> NoFilter, startDate |-> {DashDate(SampleDay - 1)}, endDate |-> {DashDate(SampleDay)},
       completed |-> NoFilter, priority |-> {"low"}] }

ReadNext ==
    \/ \E c \in Clients, q \in JournalQueries : JournalList(c, q)
    \/ \E c \in Clients, id \in JournalIds : JournalGet(c, id)
    \/ \E c \in Clients, q \in GoalQueries : GoalList(c, q)
    \/ \E c \in Clients, id \in GoalIds : GoalGet(c, id)
    \/ \E c \in Clients, q \in TodoQueries : TodoList(c, q)
    \/ \E c \in Clients : TodoToday(c)
    \/ \E c \in Clients : TodoOverdue(c)
    \/ \E c \in Clients : NotificationsPending(c)
    \/ \E c \in Clients : StatsExport(c)

SpecRead == ReadInit /\ [][ReadNext]_vars

\* ================================================================ streaks
\* routes/stats.js: calculateStreak and calculateLongestStreak.
\* JavaScript Date: an instant is a number of hours (UTC); toISOString() reads
\* the UTC date, getDate()/setDate() read and write the local date in the time
\* zone of the process.  The model has UTC and one zone with daylight saving
\* whose clocks fall back by an hour at FallBackHour.
StreakDays == 5
NowDay == StreakDays - 1
FallBackHour == (NowDay - 1) * HoursPerDay + 6

Zones == {"UTC", "America/New_York"}

ZoneOffset(z, u) ==
    IF z = "UTC" THEN 0 ELSE IF u < FallBackHour THEN 0 - 4 ELSE 0 - 5

LocalTime(z, u) == u + ZoneOffset(z, u)

\* the instant of a local time; of the two instants of a repeated local hour
\* the earlier one (a zone is within 14 hours of UTC)
NearInstants(lt) == (lt - 14)..(lt + 14)

FromLocal(z, lt) ==
    CHOOSE u \in NearInstants(lt) :
        /\ LocalTime(z, u) = lt
        /\ \A v \in NearInstants(lt) : LocalTime(z, v) = lt => u <= v

\* currentDate.setDate(currentDate.getDate() - 1)
SetDateMinusOne(z, u) == FromLocal(z, LocalTime(z, u) - HoursPerDay)

\* date.toISOString().split('T')[0]
ISODate(u) == u \div HoursPerDay

\* the UNION of calculateStreak for one dateStr: entry_date = ?, or
\* date(completed_at) = ? of a completed todo, or activity_date = ?
ActivityOn(userId, day) ==
    \/ \E j \in journal_entries : j.user_id = userId /\ j.entry_date = {DashDate(day)}
    \/ \E t \in todos : /\ t.user_id = userId
                        /\ t.is_completed = 1
                        /\ \E stamp \in t.completed_at : ISODate(stamp) = day
    \/ \E a \in activity_log : a.user_id = userId /\ a.activity_date = day

\* the while (true) loop of calculateStreak from currentDate with the streak so far
RECURSIVE StreakLoop(_, _, _)
StreakLoop(userId, currentDate, streak) ==
    IF ActivityOn(userId, ISODate(currentDate))
    THEN StreakLoop(userId, SetDateMinusOne(zone, currentDate), streak + 1)
    ELSE IF ISODate(currentDate) = ISODate(now)
    THEN StreakLoop(userId, SetDateMinusOne(zone, currentDate), streak)
    ELSE streak

calculateStreak(userId) == StreakLoop(userId, now, 0)

\* SELECT DISTINCT date FROM (... UNION ... UNION ...): the date strings, a
\* NULL entry_date among them as {}
ActivityDates(userId) ==
    {j.entry_date : j \in OwnedJournal(userId)}
    \cup {{DashDate(ISODate(stamp))} :
             stamp \in UNION {t.completed_at : t \in {x \in OwnedTodos(userId) : x.is_completed = 1}}}
    \cup {{DashDate(a.activity_date)} : a \in {x \in activity_log : x.user_id = userId}}

\* ORDER BY date ASC
ActivitiesInOrder(userId) ==
    SortedByKey(ActivityDates(userId), [d \in ActivityDates(userId) |-> ColumnKey(d)])

\* new Date(value): null is the epoch, 'YYYY-MM-DD' is midnight UTC, any other
\* date format is midnight local time
EpochHour == 0 - 20000 * HoursPerDay
NewDate(z, column) ==
    IF column = {} THEN EpochHour
    ELSE LET d == CHOOSE e \in column : TRUE
         IN  IF d.slash THEN FromLocal(z, d.day * HoursPerDay) ELSE d.day * HoursPerDay

\* Math.round((currDate - prevDate) / (1000 * 60 * 60 * 24))
DiffDays(prevDate, currDate) == (2 * (currDate - prevDate) + HoursPerDay) \div (2 * HoursPerDay)

Max(a, b) == IF a >= b THEN a ELSE b

\* the for loop of calculateLongestStreak from index i
RECURSIVE LongestLoop(_, _, _, _)
LongestLoop(activities, i, longestStreak, currentStreak) ==
    IF i > Len(activities) THEN longestStreak
    ELSE IF DiffDays(NewDate(zone, activities[i - 1]), NewDate(zone, activities[i])) = 1
    THEN LongestLoop(activities, i + 1, Max(longestStreak, currentStreak + 1), currentStreak + 1)
    ELSE LongestLoop(activities, i + 1, longestStreak, 1)

calculateLongestStreak(userId) ==
    IF ActivitiesInOrder(userId) = <<>> THEN 0
    ELSE LongestLoop(ActivitiesInOrder(userId), 2, 1, 1)

\* GET /api/stats/streaks and its alias GET /api/stats/streak
StreakRoutes == {"stats_streaks", "stats_streak"}

StatsStreaks(c, route) ==
    IF ~RequireAuth(c) THEN Unauthorized(route, c)
    ELSE
        /\ last' = Response(route, c, 200, 0, 0, FALSE,
                       <<[current |-> calculateStreak(SessionUserId(c)),
                          longest |-> calculateLongestStreak(SessionUserId(c))]>>)
        /\ UNCHANGED <<authVars, journalVars, goalVars, todoVars, activity_log, seq, envVars>>

\* ----------------------------------------------- the streak specification
\* The activity of StreakDays days as the routes leave it: on each day a login
\* of user 1, of user 2 or of nobody; at most one journal entry of user 1,
\* created on the day of user 1's first activity-log row and dated by POST or
\* PUT; at most one todo of user 1 completed by bulk-complete.  The request
\* comes on the last day, at midnight or at noon UTC.
Days == 0..(StreakDays - 1)
JournalDays == {NowDay - 2, NowDay - 1}
EntryDateColumns ==
    {{}} \cup {{DashDate(d)} : d \in JournalDays} \cup {{SlashDate(d)} : d \in JournalDays}
NowInputs == {NowDay * HoursPerDay, NowDay * HoursPerDay + 12}
CompletedStamp == (NowDay - 2) * HoursPerDay + 1

LogIdOn(logins, day) == Cardinality({e \in Days : e <= day /\ logins[e] # 0})

StreakLog(logins, firstIsJournal) ==
    {[id |-> LogIdOn(logins, d), user_id |-> logins[d],
      activity_type |-> IF firstIsJournal /\ logins[d] = 1
                           /\ \A e \in Days : (e < d) => logins[e] # 1
                        THEN "journal" ELSE "login",
      activity_date |-> d] : d \in {e \in Days : logins[e] # 0}}

StreakInit ==
    /\ RegisteredInit
    /\ goals = {}
    /\ goal_milestones = {}
    /\ now \in NowInputs
    /\ zone \in Zones
    /\ \E logins \in [Days -> 0..NumUsers], entries \in SUBSET EntryDateColumns,
          completed \in BOOLEAN :
          /\ Cardinality(entries) <= 1
          /\ entries # {} => \E d \in Days : logins[d] = 1
          /\ activity_log = StreakLog(logins, entries # {})
          /\ journal_entries = {JournalRow(1, 1, {}, "plan", {}, e) : e \in entries}
          /\ journal_images = {}
          /\ todos = IF completed
                     THEN {[TodoRow(1, 1, "t", "low", DashDate(NowDay - 2))
                               EXCEPT !.is_completed = 1, !.completed_at = {CompletedStamp}]}
                     ELSE {}
          /\ seq = [SeqZero EXCEPT !.users = NumUsers, !.notification_settings = NumUsers,
                                   !.journal_entries = Cardinality(entries),
                                   !.todos = IF completed THEN 1 ELSE 0,
                                   !.activity_log = Cardinality(StreakLog(logins, FALSE))]

StreakNext == \E c \in Clients, route \in StreakRoutes : StatsStreaks(c, route)

SpecStreak == StreakInit /\ [][StreakNext]_vars

\* ============================================================ todo writes
\* routes/todos.js.  The request bodies the model draws.
TodoCreateBodies ==
    { [title |-> "t", priority |-> {},         scheduled_date |-> {DashDate(SampleDay - 1)}],
      [title |-> "t", priority |-> {"urgent"}, scheduled_date |-> {SlashDate(SampleDay)}],
      [title |-> "",  priority |-> {},         scheduled_date |-> {DashDate(SampleDay)}],
      [title |-> "t", priority |-> {"asap"},   scheduled_date |-> {DashDate(SampleDay)}],
      [title |-> "t", priority |-> {},         scheduled_date |-> {}] }

TodoUpdateBodies ==
    { [title |-> {},    priority |-> {"urgent"}, scheduled_date |-> {}],
      [title |-> {"t"}, priority |-> {},         scheduled_date |-> {DashDate(SampleDay - 1)}],
      [title |-> {" "}, priority |-> {},         scheduled_date |-> {}] }

\* an element of the ids of a JSON body: a number, or the boolean true
JsonNumber(n) == [type |-> "number", n |-> n]

JsonTrue == [type |-> "boolean", n |-> 1]

BulkInputs ==
    {<<>>, <<JsonNumber(1), JsonNumber(2)>>, <<JsonNumber(1), JsonTrue>>}
NewDateInputs == {{}, {DashDate(SampleDay)}}

\* body('title').notEmpty().trim(), body('scheduled_date').isDate(),
\* body('priority').optional().isIn([...])
TodoCreateValid(body) ==
    /\ body.title # ""
    /\ body.scheduled_date # {}
    /\ body.priority \subseteq Priorities

\* POST /api/todos
TodoCreate(c, body) ==
    IF ~RequireAuth(c) THEN Unauthorized("todo_create", c)
    ELSE IF ~TodoCreateValid(body) THEN
        /\ last' = WithInput(Response("todo_create", c, 400, 0, 0, FALSE, NoRows), body)
        /\ UNCHANGED <<authVars, journalVars, goalVars, todoVars, activity_log, seq, envVars>>
    ELSE
        /\ seq.todos < MaxTodos
        /\ LET id == seq.todos + 1
           IN  /\ todos' = todos \cup
                     {TodoRow(id, SessionUserId(c), Trim(body.title),
                              IF body.priority = {} THEN "medium"
                              ELSE CHOOSE p \in body.priority : TRUE,
                              CHOOSE d \in body.scheduled_date : TRUE)}
               /\ seq' = [seq EXCEPT !.todos = id]
               /\ last' = WithInput(Response("todo_create", c, 201, id, 0, FALSE, NoRows), body)
        /\ UNCHANGED <<authVars, journalVars, goalVars, activity_log, envVars>>

OwnsTodo(userId, id) == \E t \in todos : t.id = id /\ t.user_id = userId

\* body('title').optional().trim().notEmpty(), priority and scheduled_date optional
TodoUpdateValid(body) ==
    /\ \A t \in body.title : Trim(t) # ""
    /\ body.priority \subseteq Priorities

UpdatedTodo(t, body) ==
    [t EXCEPT !.title = IF body.title = {} THEN @ ELSE Trim(CHOOSE x \in body.title : TRUE),
              !.priority = IF body.priority = {} THEN @ ELSE CHOOSE x \in body.priority : TRUE,
              !.scheduled_date = IF body.scheduled_date = {} THEN @
                                 ELSE CHOOSE x \in body.scheduled_date : TRUE]

\* PUT /api/todos/:id
TodoUpdate(c, id, body) ==
    IF ~RequireAuth(c) THEN Unauthorized("todo_update", c)
    ELSE IF ~TodoUpdateValid(body) THEN
        /\ last' = WithInput(Response("todo_update", c, 400, id, 0, FALSE, NoRows), body)
        /\ UNCHANGED <<authVars, journalVars, goalVars, todoVars, activity_log, seq, envVars>>
    ELSE IF ~OwnsTodo(SessionUserId(c), id) THEN
        /\ last' = WithInput(Response("todo_update", c, 404, id, 0, FALSE, NoRows), body)
        /\ UNCHANGED <<authVars, journalVars, goalVars, todoVars, activity_log, seq, envVars>>
    ELSE
        /\ todos' = (todos \ {Row(todos, id)}) \cup {UpdatedTodo(Row(todos, id), body)}
        /\ last' = WithInput(Response("todo_update", c, 200, id, 0, FALSE, NoRows), body)
        /\ UNCHANGED <<authVars, journalVars, goalVars, activity_log, seq, envVars>>

MutAlwaysCompleted(isCompleted) == 1

\* const newStatus = todo.is_completed ? 0 : 1
NewStatus(isCompleted) == IF isCompleted # 0 THEN 0 ELSE 1

\* a toggle that writes the flag and leaves the timestamp as it was
MutToggleKeepsStamp(t) == [t EXCEPT !.is_completed = NewStatus(t.is_completed)]

\* SET is_completed = ?, completed_at = ? with newStatus ? new Date().toISOString() : null
ToggledTodo(t) ==
    [t EXCEPT !.is_completed = NewStatus(t.is_completed),
              !.completed_at = IF NewStatus(t.is_completed) # 0 THEN {now} ELSE {}]

\* a toggle that takes the completion back out of the log
MutToggleForgetsLog(c, id) ==
    IF ~RequireAuth(c) \/ ~OwnsTodo(SessionUserId(c), id) THEN Unauthorized("todo_toggle", c)
    ELSE
        LET t == Row(todos, id)
        IN  /\ NewStatus(t.is_completed) # 0 => LogHasRoom
            /\ todos' = (todos \ {t}) \cup {ToggledTodo(t)}
            /\ activity_log' =
                  IF NewStatus(t.is_completed) # 0
                  THEN activity_log \cup
                          {LogRow(seq.activity_log + 1, SessionUserId(c), "todo_completed")}
                  ELSE {a \in activity_log : a.activity_type # "todo_completed"}
            /\ seq' = [seq EXCEPT !.activity_log =
                          IF NewStatus(t.is_completed) # 0 THEN @ + 1 ELSE @]
            /\ last' = Response("todo_toggle", c, 200, id, 0,
                                NewStatus(t.is_completed) = 1, NoRows)
            /\ UNCHANGED <<authVars, journalVars, goalVars, envVars>>

\* a toggle that logs a completion whichever way the todo went
MutToggleLogsEveryToggle(c, id) ==
    IF ~RequireAuth(c) THEN Unauthorized("todo_toggle", c)
    ELSE IF ~OwnsTodo(SessionUserId(c), id) THEN
        /\ last' = Response("todo_toggle", c, 404, id, 0, FALSE, NoRows)
        /\ UNCHANGED <<authVars, journalVars, goalVars, todoVars, activity_log, seq, envVars>>
    ELSE
        LET t == Row(todos, id)
            logId == seq.activity_log + 1
        IN  /\ LogHasRoom
            /\ todos' = (todos \ {t}) \cup {ToggledTodo(t)}
            /\ activity_log' = activity_log \cup
                  {LogRow(logId, SessionUserId(c), "todo_completed")}
            /\ seq' = [seq EXCEPT !.activity_log = logId]
            /\ last' = Response("todo_toggle", c, 200, id, 0,
                                NewStatus(t.is_completed) = 1, NoRows)
            /\ UNCHANGED <<authVars, journalVars, goalVars, envVars>>

\* PATCH /api/todos/:id/toggle
TodoToggle(c, id) ==
    IF ~RequireAuth(c) THEN Unauthorized("todo_toggle", c)
    ELSE IF ~OwnsTodo(SessionUserId(c), id) THEN
        /\ last' = Response("todo_toggle", c, 404, id, 0, FALSE, NoRows)
        /\ UNCHANGED <<authVars, journalVars, goalVars, todoVars, activity_log, seq, envVars>>
    ELSE
        LET t == Row(todos, id)
            logId == seq.activity_log + 1
        IN  /\ NewStatus(t.is_completed) # 0 => LogHasRoom
            /\ todos' = (todos \ {t}) \cup {ToggledTodo(t)}
            /\ IF NewStatus(t.is_completed) # 0
               THEN /\ activity_log' = activity_log \cup
                          {LogRow(logId, SessionUserId(c), "todo_completed")}
                    /\ seq' = [seq EXCEPT !.activity_log = logId]
               ELSE UNCHANGED <<activity_log, seq>>
            /\ last' = Response("todo_toggle", c, 200, id, 0,
                                NewStatus(t.is_completed) = 1, NoRows)
            /\ UNCHANGED <<authVars, journalVars, goalVars, envVars>>

\* DELETE /api/todos/:id
TodoDelete(c, id) ==
    IF ~RequireAuth(c) THEN Unauthorized("todo_delete", c)
    ELSE IF ~OwnsTodo(SessionUserId(c), id) THEN
        /\ last' = Response("todo_delete", c, 404, id, 0, FALSE, NoRows)
        /\ UNCHANGED <<authVars, journalVars, goalVars, todoVars, activity_log, seq, envVars>>
    ELSE
        /\ todos' = todos \ {Row(todos, id)}
        /\ last' = Response("todo_delete", c, 200, id, 0, FALSE, NoRows)
        /\ UNCHANGED <<authVars, journalVars, goalVars, activity_log, seq, envVars>>

\* the values better-sqlite3 binds to a placeholder: numbers, strings,
\* bigints, buffers and null; run() throws a TypeError for any other
Bindable(v) == v.type # "boolean"

\* a bulk-complete that completes the listed todos of every user
MutBulkCompleteOfAnyone(c, ids) ==
    IF ~RequireAuth(c) \/ ids = <<>> THEN Unauthorized("todo_bulk_complete", c)
    ELSE
        /\ todos' = {IF t.id \in {v.n : v \in Range(ids)}
                     THEN [t EXCEPT !.is_completed = 1, !.completed_at = {now}]
                     ELSE t : t \in todos}
        /\ last' = WithInput(Response("todo_bulk_complete", c, 200, 0, 0, FALSE, NoRows),
                             [ids |-> ids])
        /\ UNCHANGED <<authVars, journalVars, goalVars, activity_log, seq, envVars>>

\* POST /api/todos/bulk-complete: SET is_completed = 1, completed_at =
\* CURRENT_TIMESTAMP WHERE id IN (...) AND user_id = ?; an element run()
\* cannot bind throws into the catch, which answers 500
TodoBulkComplete(c, ids) ==
    IF ~RequireAuth(c) THEN Unauthorized("todo_bulk_complete", c)
    ELSE IF ids = <<>> THEN
        /\ last' = Response("todo_bulk_complete", c, 400, 0, 0, FALSE, NoRows)
        /\ UNCHANGED <<authVars, journalVars, goalVars, todoVars, activity_log, seq, envVars>>
    ELSE IF \E v \in Range(ids) : ~Bindable(v) THEN
        /\ last' = WithInput(Response("todo_bulk_complete", c, 500, 0, 0, FALSE, NoRows),
                             [ids |-> ids])
        /\ UNCHANGED <<authVars, journalVars, goalVars, todoVars, activity_log, seq, envVars>>
    ELSE
        /\ todos' = {IF t.id \in {v.n : v \in Range(ids)} /\ t.user_id = SessionUserId(c)
                     THEN [t EXCEPT !.is_completed = 1, !.completed_at = {now}]
                     ELSE t : t \in todos}
        /\ last' = WithInput(Response("todo_bulk_complete", c, 200, 0, 0, FALSE, NoRows),
                             [ids |-> ids])
        /\ UNCHANGED <<authVars, journalVars, goalVars, activity_log, seq, envVars>>

\* POST /api/todos/reschedule-overdue
TodoRescheduleOverdue(c, newDate) ==
    IF ~RequireAuth(c) THEN Unauthorized("todo_reschedule_overdue", c)
    ELSE IF newDate = {} THEN
        /\ last' = Response("todo_reschedule_overdue", c, 400, 0, 0, FALSE, NoRows)
        /\ UNCHANGED <<authVars, journalVars, goalVars, todoVars, activity_log, seq, envVars>>
    ELSE
        /\ todos' = {IF t \in OverdueTodos(SessionUserId(c), Today)
                     THEN [t EXCEPT !.scheduled_date = CHOOSE d \in newDate : TRUE]
                     ELSE t : t \in todos}
        /\ last' = WithInput(
              Response("todo_reschedule_overdue", c, 200,
                       Cardinality(OverdueTodos(SessionUserId(c), Today)), 0, FALSE, NoRows),
              [newDate |-> newDate])
        /\ UNCHANGED <<authVars, journalVars, goalVars, activity_log, seq, envVars>>

\* ------------------------------------------------- the todos specification
TodosInit ==
    /\ LoggedInInit
    /\ now = SampleDay * HoursPerDay
    /\ zone = "UTC"

TodosNext ==
    \/ \E c \in Clients, b \in TodoCreateBodies : TodoCreate(c, b)
    \/ \E c \in Clients, id \in TodoIds, b \in TodoUpdateBodies : TodoUpdate(c, id, b)
    \/ \E c \in Clients, id \in TodoIds : TodoToggle(c, id)
    \/ \E c \in Clients, id \in TodoIds : TodoDelete(c, id)
    \/ \E c \in Clients, ids \in BulkInputs : TodoBulkComplete(c, ids)
    \/ \E c \in Clients, d \in NewDateInputs : TodoRescheduleOverdue(c, d)

SpecTodos == TodosInit /\ [][TodosNext]_vars

\* ========================================================= journal writes
\* routes/journal.js.  The request bodies the model draws; files is the number
\* of images multer accepted.
JournalCreateBodies ==
    { [title |-> {"note"}, content |-> "plan", mood |-> {"good"},  entry_date |-> {}, files |-> 1],
      [title |-> {},       content |-> "note", mood |-> {},
       entry_date |-> {SlashDate(SampleDay - 1)}, files |-> 0],
      [title |-> {},       content |-> "",     mood |-> {},        entry_date |-> {}, files |-> 0],
      [title |-> {},       content |-> "plan", mood |-> {"happy"}, entry_date |-> {}, files |-> 0] }

JournalUpdateBodies ==
    { [title |-> {}, content |-> "note", mood |-> {}, entry_date |-> {DashDate(SampleDay)},
       files |-> 0],
      [title |-> {}, content |-> "note", mood |-> {}, entry_date |-> {}, files |-> 0],
      [title |-> {}, content |-> "",     mood |-> {}, entry_date |-> {DashDate(SampleDay)},
       files |-> 0] }

\* body('content').notEmpty(), body('mood').optional().isIn([...]),
\* body('entry_date').optional().isDate(): every date string of the model is
\* one isDate accepts
MutAnyContent(body) == body.mood \subseteq Moods

JournalCreateValid(body) == body.content # "" /\ body.mood \subseteq Moods

\* the images of req.files, inserted with AUTOINCREMENT ids
NewImages(journalId, files) ==
    {ImageRow(seq.journal_images + k, journalId) : k \in 1..files}

\* POST /api/journal
JournalCreate(c, body) ==
    IF ~RequireAuth(c) THEN Unauthorized("journal_create", c)
    ELSE IF ~JournalCreateValid(body) THEN
        /\ last' = [Response("journal_create", c, 400, 0, 0, FALSE, NoRows)
                       EXCEPT !.input = {body}]
        /\ UNCHANGED <<authVars, journalVars, goalVars, todoVars, activity_log, seq, envVars>>
    ELSE
        /\ seq.journal_entries < MaxJournal
        /\ seq.journal_images + body.files <= MaxImages
        /\ LET id == seq.journal_entries + 1
               logId == seq.activity_log + 1
           IN  /\ journal_entries' = journal_entries \cup
                     {JournalRow(id, SessionUserId(c), body.title, body.content, body.mood,
                                 IF body.entry_date = {} THEN {DashDate(Today)}
                                 ELSE body.entry_date)}
               /\ journal_images' = journal_images \cup NewImages(id, body.files)
               /\ activity_log' = activity_log \cup {LogRow(logId, SessionUserId(c), "journal")}
               /\ seq' = [seq EXCEPT !.journal_entries = id,
                                     !.journal_images = @ + body.files,
                                     !.activity_log = logId]
               /\ last' = [Response("journal_create", c, 201, id, 0, FALSE, NoRows)
                              EXCEPT !.input = {body}]
        /\ UNCHANGED <<authVars, goalVars, todoVars, envVars>>

\* the PUT validators: content and mood as for POST, entry_date not validated
JournalUpdateValid(body) == body.content # "" /\ body.mood \subseteq Moods

\* SET title = ?, content = ?, mood = ?, mood_note = ?, entry_date = ?
UpdatedJournal(j, body) ==
    [j EXCEPT !.title = body.title, !.content = body.content, !.mood = body.mood,
              !.entry_date = body.entry_date]

\* PUT /api/journal/:id.  entry_date is bound as it comes: when the body has
\* none the value is undefined, which the driver either refuses (the catch
\* answers 500) or binds as NULL, depending on its version.
JournalUpdate(c, id, body) ==
    IF ~RequireAuth(c) THEN Unauthorized("journal_update", c)
    ELSE IF ~JournalUpdateValid(body) THEN
        /\ last' = WithInput(Response("journal_update", c, 400, id, 0, FALSE, NoRows), body)
        /\ UNCHANGED <<authVars, journalVars, goalVars, todoVars, activity_log, seq, envVars>>
    ELSE IF ~OwnsJournal(SessionUserId(c), id) THEN
        /\ last' = WithInput(Response("journal_update", c, 404, id, 0, FALSE, NoRows), body)
        /\ UNCHANGED <<authVars, journalVars, goalVars, todoVars, activity_log, seq, envVars>>
    ELSE
        \/ /\ body.entry_date = {}
           /\ last' = WithInput(Response("journal_update", c, 500, id, 0, FALSE, NoRows), body)
           /\ UNCHANGED <<authVars, journalVars, goalVars, todoVars, activity_log, seq, envVars>>
        \/ /\ journal_entries' = (journal_entries \ {Row(journal_entries, id)})
                                    \cup {UpdatedJournal(Row(journal_entries, id), body)}
           /\ seq.journal_images + body.files <= MaxImages
           /\ journal_images' = journal_images \cup NewImages(id, body.files)
           /\ seq' = [seq EXCEPT !.journal_images = @ + body.files]
           /\ last' = WithInput(Response("journal_update", c, 200, id, 0, FALSE, NoRows), body)
           /\ UNCHANGED <<authVars, goalVars, todoVars, activity_log, envVars>>

\* DELETE /api/journal/:id; the images go with the entry (ON DELETE CASCADE)
JournalDelete(c, id) ==
    IF ~RequireAuth(c) THEN Unauthorized("journal_delete", c)
    ELSE IF ~OwnsJournal(SessionUserId(c), id) THEN
        /\ last' = Response("journal_delete", c, 404, id, 0, FALSE, NoRows)
        /\ UNCHANGED <<authVars, journalVars, goalVars, todoVars, activity_log, seq, envVars>>
    ELSE
        /\ journal_entries' = journal_entries \ {Row(journal_entries, id)}
        /\ journal_images' = {i \in journal_images : i.journal_id # id}
        /\ last' = Response("journal_delete", c, 200, id, 0, FALSE, NoRows)
        /\ UNCHANGED <<authVars, goalVars, todoVars, activity_log, seq, envVars>>

\* DELETE /api/journal/:id/images/:imageId: the image is looked up by its id
\* and the owner of its entry; the :id of the path is not read
OwnsImage(userId, imageId) ==
    \E i \in journal_images : i.id = imageId /\ OwnsJournal(userId, i.journal_id)

JournalImageDelete(c, id, imageId) ==
    IF ~RequireAuth(c) THEN Unauthorized("journal_image_delete", c)
    ELSE IF ~OwnsImage(SessionUserId(c), imageId) THEN
        /\ last' = Response("journal_image_delete", c, 404, id, imageId, FALSE, NoRows)
        /\ UNCHANGED <<authVars, journalVars, goalVars, todoVars, activity_log, seq, envVars>>
    ELSE
        /\ journal_images' = journal_images \ {Row(journal_images, imageId)}
        /\ last' = Response("journal_image_delete", c, 200, id, imageId, FALSE, NoRows)
        /\ UNCHANGED <<authVars, journal_entries, goalVars, todoVars, activity_log, seq, envVars>>

\* ----------------------------------------------- the journal specification
ImageIds == 1..MaxImages

JournalInit ==
    /\ LoggedInInit
    /\ now = SampleDay * HoursPerDay
    /\ zone = "UTC"

JournalNext ==
    \/ \E c \in Clients, b \in JournalCreateBodies : JournalCreate(c, b)
    \/ \E c \in Clients, id \in JournalIds, b \in JournalUpdateBodies : JournalUpdate(c, id, b)
    \/ \E c \in Clients, id \in JournalIds : JournalDelete(c, id)
    \/ \E c \in Clients, id \in JournalIds, im \in ImageIds : JournalImageDelete(c, id, im)
    \/ \E c \in Clients, q \in JournalQueries : JournalList(c, q)
    \/ \E c \in Clients, id \in JournalIds : JournalGet(c, id)

SpecJournal == JournalInit /\ [][JournalNext]_vars

\* =================================================================== auth
\* routes/auth.js, mounted on /api/auth without requireAuth.  register, login
\* and change-password are async: a handler runs up to an await of bcrypt,
\* other requests are served, and it resumes later.  A suspended request is a
\* record of inflight with what the handler holds in its local variables.
MaxInflight == 2
MaxLogins == 1

RegisterNames == {"alice", "bob", "al"}
RegisterPasswords == {"secret1", "short"}
LoginNames == {"alice", "bob"}
PasswordInputs == {"secret1", "secret2", ""}
NewPasswordInputs == {"secret2", "short"}

MinUsername == 3
MaxUsername == 30
MinPassword == 6

Pending(op, c, stage, username, password, userId, hash, newPassword) ==
    [op |-> op, c |-> c, stage |-> stage, username |-> username, password |-> password,
     userId |-> userId, hash |-> hash, newPassword |-> newPassword]

NoHash == <<>>

CanSuspend(c) == Cardinality(inflight) < MaxInflight /\ \A r \in inflight : r.c # c

UserBody(id, username) == <<[id |-> id, username |-> username]>>

UsersNamed(username) == {u \in users : u.username = username}

\* validateRegistration: username trimmed, 3 to 30 characters of [a-zA-Z0-9_]
\* (every name the model draws is made of such characters), password of at
\* least 6 characters
ValidRegistration(username, password) ==
    /\ Len(username) >= MinUsername
    /\ Len(username) <= MaxUsername
    /\ Len(password) >= MinPassword

\* POST /api/auth/register up to await bcrypt.hash(password, saltRounds)
Register(c, username, password) ==
    /\ IF ~ValidRegistration(username, password) \/ UsersNamed(username) # {}
       THEN /\ last' = [Response("register", c, 400, 0, 0, FALSE, NoRows)
                           EXCEPT !.input = {[username |-> username]}]
            /\ UNCHANGED inflight
       ELSE /\ CanSuspend(c)
            /\ inflight' = inflight \cup
                  {Pending("register", c, "hash", username, password, 0, NoHash, "")}
            /\ UNCHANGED last
    /\ UNCHANGED <<authVars, journalVars, goalVars, todoVars, activity_log, seq, now, zone>>

\* register after the await: INSERT INTO users fails on the UNIQUE username
\* when the name was taken meanwhile (the catch answers 500); otherwise the
\* user and its notification settings are inserted and the session is set
RegisterResume(r) ==
    /\ r \in inflight /\ r.op = "register"
    /\ inflight' = inflight \ {r}
    /\ IF UsersNamed(r.username) # {}
       THEN /\ last' = Response("register", r.c, 500, 0, 0, FALSE, NoRows)
            /\ UNCHANGED <<authVars, seq>>
       ELSE /\ seq.users < NumUsers
            /\ LET id == seq.users + 1
                   settingsId == seq.notification_settings + 1
               IN  /\ users' = users \cup {UserRow(id, r.username, r.password)}
                   /\ notification_settings' =
                         notification_settings \cup {SettingsRow(settingsId, id)}
                   /\ seq' = [seq EXCEPT !.users = id, !.notification_settings = settingsId]
                   /\ session' = [session EXCEPT ![r.c] = SessionOf(id, r.username)]
                   /\ last' = Response("register", r.c, 201, id, 0, TRUE,
                                       UserBody(id, r.username))
    /\ UNCHANGED <<journalVars, goalVars, todoVars, activity_log, now, zone>>

\* validateLogin: username trimmed and not empty, password not empty
ValidLogin(username, password) == username # "" /\ password # ""

\* POST /api/auth/login up to await bcrypt.compare(password, user.password_hash)
Login(c, username, password) ==
    /\ IF ~ValidLogin(username, password)
       THEN /\ last' = Response("login", c, 400, 0, 0, FALSE, NoRows)
            /\ UNCHANGED inflight
       ELSE IF UsersNamed(username) = {}
       THEN /\ last' = [Response("login", c, 401, 0, 0, FALSE, NoRows)
                           EXCEPT !.input = {[username |-> username, password |-> password]}]
            /\ UNCHANGED inflight
       ELSE /\ CanSuspend(c)
            /\ LET user == CHOOSE u \in UsersNamed(username) : TRUE
               IN  inflight' = inflight \cup
                      {Pending("login", c, "compare", user.username, password, user.id,
                               user.password_hash, "")}
            /\ UNCHANGED last
    /\ UNCHANGED <<authVars, journalVars, goalVars, todoVars, activity_log, seq, now, zone>>

\* login after the await: a mismatch is answered 401; otherwise the session is
\* set, the login is logged and the user is sent
LoginResume(r) ==
    /\ r \in inflight /\ r.op = "login"
    /\ inflight' = inflight \ {r}
    /\ IF Hash(r.password) # r.hash
       THEN /\ last' = Response("login", r.c, 401, 0, 0, FALSE, NoRows)
            /\ UNCHANGED <<session, activity_log, seq>>
       ELSE /\ seq.activity_log < MaxLogins
            /\ LET logId == seq.activity_log + 1
               IN  /\ session' = [session EXCEPT ![r.c] = SessionOf(r.userId, r.username)]
                   /\ activity_log' = activity_log \cup {LogRow(logId, r.userId, "login")}
                   /\ seq' = [seq EXCEPT !.activity_log = logId]
                   /\ last' = Response("login", r.c, 200, r.userId, 0, TRUE,
                                       UserBody(r.userId, r.username))
    /\ UNCHANGED <<users, notification_settings, journalVars, goalVars, todoVars, now, zone>>

\* POST /api/auth/logout: req.session.destroy
Logout(c) ==
    /\ session' = [session EXCEPT ![c] = {}]
    /\ last' = Response("logout", c, 200, 0, 0, FALSE, NoRows)
    /\ UNCHANGED <<users, notification_settings, journalVars, goalVars, todoVars,
                   activity_log, seq, envVars>>

\* GET /api/auth/status
Status(c) ==
    /\ last' = IF RequireAuth(c)
               THEN Response("status", c, 200, SessionUserId(c), 0, TRUE,
                             UserBody(SessionUserId(c), SessionUsername(c)))
               ELSE Response("status", c, 200, 0, 0, FALSE, NoRows)
    /\ UNCHANGED <<authVars, journalVars, goalVars, todoVars, activity_log, seq, envVars>>

\* the validators of change-password: currentPassword not empty, newPassword
\* of at least 6 characters
ValidChangePassword(currentPassword, newPassword) ==
    currentPassword # "" /\ Len(newPassword) >= MinPassword

\* POST /api/auth/change-password up to await bcrypt.compare.  The route has
\* no requireAuth: without a session the SELECT finds no user and reading
\* user.password_hash throws, which the catch answers 500.
ChangePassword(c, currentPassword, newPassword) ==
    /\ IF ~ValidChangePassword(currentPassword, newPassword)
       THEN /\ last' = Response("change_password", c, 400, 0, 0, FALSE, NoRows)
            /\ UNCHANGED inflight
       ELSE IF ~RequireAuth(c) \/ ~HasRow(users, SessionUserId(c))
       THEN /\ last' = Response("change_password", c, 500, 0, 0, FALSE, NoRows)
            /\ UNCHANGED inflight
       ELSE /\ CanSuspend(c)
            /\ inflight' = inflight \cup
                  {Pending("change_password", c, "compare", SessionUsername(c), currentPassword,
                           SessionUserId(c), Row(users, SessionUserId(c)).password_hash,
                           newPassword)}
            /\ UNCHANGED last
    /\ UNCHANGED <<authVars, journalVars, goalVars, todoVars, activity_log, seq, now, zone>>

\* change-password after bcrypt.compare: a mismatch is answered 401, otherwise
\* the handler awaits bcrypt.hash(newPassword, 12)
ChangePasswordCompared(r) ==
    /\ r \in inflight /\ r.op = "change_password" /\ r.stage = "compare"
    /\ IF Hash(r.password) # r.hash
       THEN /\ inflight' = inflight \ {r}
            /\ last' = Response("change_password", r.c, 401, r.userId, 0, FALSE, NoRows)
       ELSE /\ inflight' = (inflight \ {r}) \cup {[r EXCEPT !.stage = "hash"]}
            /\ UNCHANGED last
    /\ UNCHANGED <<authVars, journalVars, goalVars, todoVars, activity_log, seq, now, zone>>

\* change-password after bcrypt.hash: UPDATE users SET password_hash = ? WHERE id = ?
ChangePasswordResume(r) ==
    /\ r \in inflight /\ r.op = "change_password" /\ r.stage = "hash"
    /\ inflight' = inflight \ {r}
    /\ users' = {IF u.id = r.userId THEN [u EXCEPT !.password_hash = Hash(r.newPassword)]
                 ELSE u : u \in users}
    /\ last' = Response("change_password", r.c, 200, r.userId, 0, FALSE, NoRows)
    /\ UNCHANGED <<notification_settings, session, journalVars, goalVars, todoVars,
                   activity_log, seq, now, zone>>

\* -------------------------------------------------- the auth specification
\* An empty database and no session; beside the auth routes the clients send
\* the request of a protected route.
AuthClients == 1..(NumClients - 1)

AuthInit ==
    /\ users = {}
    /\ notification_settings = {}
    /\ session = [c \in Clients |-> {}]
    /\ journal_entries = {}
    /\ journal_images = {}
    /\ goals = {}
    /\ goal_milestones = {}
    /\ todos = {}
    /\ activity_log = {}
    /\ seq = SeqZero
    /\ now = SampleDay * HoursPerDay
    /\ zone = "UTC"
    /\ inflight = {}
    /\ last = NoRequest

AuthNext ==
    \/ \E c \in AuthClients, u \in RegisterNames, p \in RegisterPasswords : Register(c, u, p)
    \/ \E r \in inflight : RegisterResume(r)
    \/ \E c \in AuthClients, u \in LoginNames, p \in PasswordInputs : Login(c, u, p)
    \/ \E r \in inflight : LoginResume(r)
    \/ \E c \in AuthClients : Logout(c)
    \/ \E c \in AuthClients : Status(c)
    \/ \E c \in AuthClients, p \in PasswordInputs, np \in NewPasswordInputs :
          ChangePassword(c, p, np)
    \/ \E r \in inflight : ChangePasswordCompared(r)
    \/ \E r \in inflight : ChangePasswordResume(r)
    \/ \E c \in AuthClients : NotificationsPending(c)

SpecAuth == AuthInit /\ [][AuthNext]_vars

\* ============================================================ ownership
\* who owns a row: the user_id column, and for a milestone its goal's
OwnerOfGoal(gs, goalId) == Row(gs, goalId).user_id

RowsOfOthers(table, userId) == {r \in table : r.user_id # userId}

RowsOf(table, userId) == {r \in table : r.user_id = userId}

MilestonesOfOthers(ms, gs, userId) ==
    {m \in ms : \E g \in gs : g.id = m.goal_id /\ g.user_id # userId}

GoalOps == {"goal_get", "goal_update", "goal_delete", "milestone_add",
            "milestone_toggle", "milestone_delete"}
MilestoneOps == {"milestone_toggle", "milestone_delete"}

\* C1: in a step that serves a request of user A's session, every journal
\* entry, goal, milestone and todo owned by another user stays in its table
\* unmodified.
C1_ForeignRowsKept ==
    LET c == last'.c
        a == SessionUserId(c)
    IN  (c \in Clients /\ RequireAuth(c)) =>
          /\ RowsOfOthers(goals, a) \subseteq goals'
          /\ MilestonesOfOthers(goal_milestones, goals, a) \subseteq goal_milestones'
          /\ RowsOfOthers(journal_entries, a) \subseteq journal_entries'
          /\ RowsOfOthers(todos, a) \subseteq todos'

C1_NoForeignRowModified == [][C1_ForeignRowsKept]_vars

\* C1, second sentence: a request of user A that names a goal or milestone id
\* owned by another user is answered 404.
C1_ForeignIdAnswer ==
    LET c == last'.c
        a == SessionUserId(c)
    IN  (/\ c \in Clients /\ RequireAuth(c)
         /\ last'.op \in GoalOps
         /\ last'.status # 400
         /\ \/ \E g \in goals : g.id = last'.id /\ g.user_id # a
            \/ /\ last'.op \in MilestoneOps
               /\ \E m \in MilestonesOfOthers(goal_milestones, goals, a) :
                     m.id = last'.id2)
        => last'.status = 404

C1_ForeignIdNotFound == [][C1_ForeignIdAnswer]_vars

\* C3: right after a successful milestone toggle, the progress of the goal
\* the toggled milestone belongs to is round(completed / total * 100) over
\* that goal's milestones.
C3_ProgressMatchesMilestones ==
    (last.op = "milestone_toggle" /\ last.status = 200) =>
        LET parent == Row(goal_milestones, last.id2).goal_id
        IN  Row(goals, parent).progress = MilestoneProgress(goal_milestones, parent)

\* C4: a successful milestone toggle sets the progress of the milestone's
\* parent goal from that goal's milestones and leaves the progress of every
\* other goal as it was, whatever goal id the path carries.
C4_ToggleStep ==
    (last'.op = "milestone_toggle" /\ last'.status = 200) =>
        LET parent == Row(goal_milestones', last'.id2).goal_id
        IN  /\ Row(goals', parent).progress = MilestoneProgress(goal_milestones', parent)
            /\ \A g \in goals : g.id # parent => Row(goals', g.id).progress = g.progress

C4_OnlyParentRecomputed == [][C4_ToggleStep]_vars

ReadOps == {"journal_list", "journal_get", "goal_list", "goal_get", "todo_list",
            "todo_today", "todo_overdue", "notifications_pending", "stats_export"}
GetOps == {"journal_get", "goal_get"}
JournalOps == {"journal_list", "journal_get"}

TableOfGet(op) == IF op = "journal_get" THEN journal_entries ELSE goals

\* C2: every row in the response to a listing, a single get, the export or the
\* pending items has the caller's user_id (a milestone: belongs to a goal of
\* the caller), and a single get of another user's row is answered 404.
C2_ReadsOnlyOwnRows ==
    (last.op \in ReadOps /\ last.status # 401) =>
        LET a == SessionUserId(last.c)
        IN  /\ \A r \in Range(last.rows) : r.user_id = a
            /\ \A m \in Range(last.sub) :
                  IF last.op \in JournalOps THEN OwnsJournal(a, m.journal_id)
                  ELSE OwnsGoal(a, m.goal_id)
            /\ (last.op \in GetOps /\ \E r \in TableOfGet(last.op) :
                                          r.id = last.id /\ r.user_id # a)
                 => (last.status = 404 /\ last.rows = NoRows)

\* a listing that answers rows while another user has rows in the same table
C2_Witness_ListingBesideOthers ==
    /\ last.op = "goal_list"
    /\ last.status = 200
    /\ last.rows # NoRows
    /\ last.sub # NoRows
    /\ RowsOfOthers(goals, SessionUserId(last.c)) # {}

\* the calendar days on which a user has activity
ActivityDays(userId) == {d.day : d \in UNION ActivityDates(userId)}

\* the length of the run of consecutive days of S that ends on day
RECURSIVE RunEndingOn(_, _)
RunEndingOn(S, day) == IF day \notin S THEN 0 ELSE 1 + RunEndingOn(S, day - 1)

CurrentRun(S, today) ==
    IF today \in S THEN RunEndingOn(S, today) ELSE RunEndingOn(S, today - 1)

LongestRun(S) ==
    IF S = {} THEN 0
    ELSE CHOOSE n \in {RunEndingOn(S, d) : d \in S} :
             \A k \in {RunEndingOn(S, d) : d \in S} : k <= n

\* C5: the current streak a streak request reports is the length of the run
\* of consecutive activity days of the caller that ends today or, when today
\* has no activity, yesterday (0 when neither has activity).
C5_CurrentStreakIsRun ==
    (last.op \in StreakRoutes /\ last.status = 200) =>
        last.rows[1].current = CurrentRun(ActivityDays(SessionUserId(last.c)), ISODate(now))

\* C6: the longest streak a streak request reports is 0 when the caller has no
\* activity date and otherwise the length of the longest run of consecutive
\* calendar days among the caller's activity dates.
C6_LongestStreakIsLongestRun ==
    (last.op \in StreakRoutes /\ last.status = 200) =>
        last.rows[1].longest = LongestRun(ActivityDays(SessionUserId(last.c)))

\* C7: a successful toggle of a todo of the caller turns its completion flag
\* from 0 to 1 or from 1 to 0, so that a second one restores it, and the
\* response reports the flag's new value.
C7_ToggleStep ==
    (last'.op = "todo_toggle" /\ last'.status = 200) =>
        LET before == Row(todos, last'.id).is_completed
            after == Row(todos', last'.id).is_completed
        IN  /\ OwnsTodo(SessionUserId(last'.c), last'.id)
            /\ {before, after} = {0, 1}
            /\ last'.flag = (after = 1)

C7_ToggleTwiceRestores == [][C7_ToggleStep]_vars

\* the second of two toggles of a todo: completed by the first (its log row
\* is there), open again and reported so
C7_Witness_ToggledBack ==
    /\ last.op = "todo_toggle"
    /\ last.status = 200
    /\ last.flag = FALSE
    /\ Row(todos, last.id).is_completed = 0
    /\ \E a \in activity_log : /\ a.activity_type = "todo_completed"
                               /\ a.user_id = SessionUserId(last.c)

JournalIdsOf(rows) == {j.id : j \in rows}

\* a journal entry leaves the table only by DELETE /api/journal/:id of its id
C8_UntilDeleted ==
    \A j \in journal_entries :
        j.id \notin JournalIdsOf(journal_entries') =>
            last'.op = "journal_delete" /\ last'.status = 200 /\ last'.id = j.id

\* C8 as stated: a create with empty content is answered 400 and writes no
\* journal row and no activity-log row; a create with non-empty content is
\* answered 201 with a new id; every journal listing of a user holds the id
\* of every entry of that user that has not been deleted.
C8_CreateStepAsStated ==
    /\ (last'.op = "journal_create" /\ last'.status # 401) =>
          LET body == CHOOSE b \in last'.input : TRUE
          IN  IF body.content = ""
              THEN /\ last'.status = 400
                   /\ journal_entries' = journal_entries
                   /\ activity_log' = activity_log
              ELSE /\ last'.status = 201
                   /\ last'.id \notin JournalIdsOf(journal_entries)
                   /\ \E j \in journal_entries' : j.id = last'.id /\ j.user_id = SessionUserId(last'.c)
    /\ (last'.op = "journal_list" /\ last'.status = 200) =>
          JournalIdsOf(RowsOf(journal_entries', SessionUserId(last'.c))) \subseteq JournalIdsOf(Range(last'.rows))
    /\ C8_UntilDeleted

C8_CreateStep ==
    /\ (last'.op = "journal_create" /\ last'.status # 401) =>
          LET body == CHOOSE b \in last'.input : TRUE
          IN  IF body.content = ""
              THEN /\ last'.status = 400
                   /\ journal_entries' = journal_entries
                   /\ activity_log' = activity_log
              ELSE body.mood \subseteq Moods =>
                     /\ last'.status = 201
                     /\ last'.id \notin JournalIdsOf(journal_entries)
                     /\ last'.id > seq.journal_entries
                     /\ \E j \in journal_entries' : j.id = last'.id /\ j.user_id = SessionUserId(last'.c)
    /\ (last'.op = "journal_list" /\ last'.status = 200) =>
          LET q == CHOOSE b \in last'.input : TRUE
              mine == RowsOf(journal_entries', SessionUserId(last'.c))
          IN  /\ JournalIdsOf({j \in mine : JournalFilter(j, q)})
                    \subseteq JournalIdsOf(Range(last'.rows))
              /\ (q.startDate = {} /\ q.endDate = {} /\ q.mood = {} /\ q.search = {})
                    => JournalIdsOf(mine) \subseteq JournalIdsOf(Range(last'.rows))
    /\ C8_UntilDeleted

dbVars == <<users, notification_settings, journal_entries, journal_images, goals,
            goal_milestones, todos, activity_log, seq>>

\* the routes mounted behind requireAuth
RequireAuthOps ==
    {"journal_list", "journal_get", "journal_create", "journal_update", "journal_delete",
     "journal_image_delete", "goal_list", "goal_get", "goal_create", "goal_update",
     "goal_delete", "milestone_add", "milestone_toggle", "milestone_delete", "todo_list",
     "todo_today", "todo_overdue", "todo_create", "todo_update", "todo_toggle",
     "todo_delete", "todo_bulk_complete", "todo_reschedule_overdue", "stats_streaks",
     "stats_streak", "stats_export", "notifications_pending"}

\* C9: a request to a route that acts on a user's data (those behind
\* requireAuth and change-password) made on a session that is not
\* authenticated is answered 401 and changes no stored row.
C9_UnauthenticatedStep ==
    (/\ last'.op \in RequireAuthOps \cup {"change_password"}
     /\ inflight' = inflight
     /\ session[last'.c] = {})
    => (last'.status = 401 /\ UNCHANGED dbVars)

C9_UnauthenticatedIs401 == [][C9_UnauthenticatedStep]_vars

\* C10: a session becomes authenticated only by the answer 201 to its
\* register or 200 to its login, as the user of that answer, and stops being
\* authenticated only by its logout, which always ends it; a login with an
\* unknown username or a wrong password is answered 401 and leaves the
\* sessions as they are; status reports authenticated exactly when the
\* session is, with its user; a protected request is answered 401 exactly
\* when the session is not authenticated.
C10_SessionStep ==
    /\ \A c \in Clients :
          /\ (session'[c] # session[c] /\ session'[c] # {}) =>
                /\ last'.c = c
                /\ \/ last'.op = "login" /\ last'.status = 200
                   \/ last'.op = "register" /\ last'.status = 201
                /\ \E u \in users' : u.id = last'.id /\ session'[c] = SessionOf(u.id, u.username)
          /\ (session[c] # {} /\ session'[c] = {}) => (last'.op = "logout" /\ last'.c = c)
    /\ (last'.op = "logout" /\ inflight' = inflight) => session'[last'.c] = {}
    /\ (last'.op = "login" /\ last'.status \in {400, 401}) => session' = session
    /\ (last'.op = "login" /\ inflight' = inflight /\ last'.status # 400) =>
          (last'.status = 401 /\ \A b \in last'.input : UsersNamed(b.username) = {})
    /\ \A r \in inflight \ inflight' :
          r.op = "login" =>
             IF Hash(r.password) = r.hash
             THEN /\ last'.status = 200 /\ last'.id = r.userId /\ last'.flag
                  /\ \E x \in session'[r.c] : x.userId = r.userId
             ELSE last'.status = 401
    /\ last'.op = "status" =>
          /\ last'.flag = (session[last'.c] # {})
          /\ \A x \in session[last'.c] : last'.rows = UserBody(x.userId, x.username)
    /\ (last'.op \in RequireAuthOps /\ inflight' = inflight) =>
          (last'.status = 401 <=> session[last'.c] = {})

UniqueUsernames(us) == \A u, v \in us : u.username = v.username => u.id = v.id

RegisterKeepsTables == users' = users /\ notification_settings' = notification_settings

\* C11: no two users ever have the same username, and a registration whose
\* username is taken when it is answered (at once, or after the await of the
\* password hash while another registration of the same name completed) is
\* answered 400 and creates no user and no settings row
C11_RegisterStep ==
    /\ UniqueUsernames(users')
    /\ (last'.op = "register" /\ inflight' = inflight) =>
          \A b \in last'.input :
             UsersNamed(b.username) # {} => (last'.status = 400 /\ RegisterKeepsTables)
    /\ \A r \in inflight \ inflight' :
          (r.op = "register" /\ UsersNamed(r.username) # {}) =>
             (last'.status = 400 /\ RegisterKeepsTables)

C11_TakenUsernameIs400 == [][C11_RegisterStep]_vars

\* ---------------------------------------------------------------- not found
\* the rows of the schema every route works on, with one goal, todo and
\* journal entry stored and the ids above them never given out
CrudInit ==
    /\ RegisteredInit
    /\ now = SampleDay * HoursPerDay
    /\ zone = "UTC"
    /\ activity_log = {}
    /\ \E jo \in UserIds, go \in UserIds, to \in UserIds :
          /\ journal_entries = {SampleJournal(1, jo)}
          /\ journal_images = {ImageRow(1, 1)}
          /\ goals = {SampleGoal(1, go)}
          /\ goal_milestones = {MilestoneRow(1, 1, "m")}
          /\ todos = {SampleTodo(1, to)}
    /\ seq = [SeqZero EXCEPT !.users = NumUsers, !.notification_settings = NumUsers,
                             !.journal_entries = 1, !.journal_images = 1, !.goals = 1,
                             !.goal_milestones = 1, !.todos = 1]

CrudNext ==
    \/ \E c \in Clients, id \in GoalIds : GoalGet(c, id)
    \/ \E c \in Clients, id \in GoalIds, b \in GoalUpdateBodies : GoalUpdate(c, id, b)
    \/ \E c \in Clients, id \in GoalIds : GoalDelete(c, id)
    \/ \E c \in Clients, id \in TodoIds, b \in TodoUpdateBodies : TodoUpdate(c, id, b)
    \/ \E c \in Clients, id \in TodoIds : TodoDelete(c, id)
    \/ \E c \in Clients, id \in JournalIds : JournalGet(c, id)
    \/ \E c \in Clients, id \in JournalIds, b \in JournalUpdateBodies : JournalUpdate(c, id, b)
    \/ \E c \in Clients, id \in JournalIds : JournalDelete(c, id)

SpecCrud == CrudInit /\ [][CrudNext]_vars

GoalIdOps == {"goal_get", "goal_update", "goal_delete"}
TodoIdOps == {"todo_update", "todo_delete"}
JournalIdOps == {"journal_get", "journal_update", "journal_delete"}
UpdateOps == {"goal_update", "todo_update", "journal_update"}

TableOfOp(op) ==
    IF op \in GoalIdOps THEN goals
    ELSE IF op \in TodoIdOps THEN todos
    ELSE journal_entries

\* the step answers an authenticated get, update or delete of a goal, todo or
\* journal entry whose id is in no row of the table
NamesMissingId ==
    /\ last'.op \in GoalIdOps \cup TodoIdOps \cup JournalIdOps
    /\ last'.status # 401
    /\ ~HasRow(TableOfOp(last'.op), last'.id)

\* the body of the update the step answers fails the route's validators: an
\* empty title, progress outside 0..100, a status, priority or mood outside
\* the allowed values, empty content
UpdateBodyRejected ==
    /\ last'.op \in UpdateOps
    /\ \E b \in last'.input :
          \/ last'.op = "goal_update" /\
                \/ \E t \in b.title : Trim(t) = ""
                \/ \E p \in b.progress : p < 0 \/ p > 100
                \/ \E st \in b.status : st \notin GoalStatuses
          \/ last'.op = "todo_update" /\
                \/ \E t \in b.title : Trim(t) = ""
                \/ \E pr \in b.priority : pr \notin Priorities
          \/ last'.op = "journal_update" /\
                \/ b.content = ""
                \/ \E m \in b.mood : m \notin Moods

\* C12 as stated: every get, update or delete of an id that does not exist
\* is answered 404 and leaves every stored row unchanged
C12_AsStatedStep == NamesMissingId => (last'.status = 404 /\ UNCHANGED dbVars)

C12_NotFoundStep ==
    NamesMissingId =>
        /\ last'.status = IF UpdateBodyRejected THEN 400 ELSE 404
        /\ UNCHANGED dbVars

RejectedTitles == {"", " ", "g"}

RejectedGoalUpdates ==
    GoalUpdateBodies \cup {[title |-> {""}, progress |-> {}, status |-> {}],
                           [title |-> {}, progress |-> {0 - 1}, status |-> {}]}

RejectedTodoCreates ==
    { [title |-> "t", priority |-> {},       scheduled_date |-> {DashDate(SampleDay)}],
      [title |-> "",  priority |-> {},       scheduled_date |-> {DashDate(SampleDay)}],
      [title |-> " ", priority |-> {},       scheduled_date |-> {DashDate(SampleDay)}],
      [title |-> "t", priority |-> {"asap"}, scheduled_date |-> {DashDate(SampleDay)}] }

RejectedTodoUpdates ==
    { [title |-> {},   priority |-> {"urgent"}, scheduled_date |-> {}],
      [title |-> {""}, priority |-> {},         scheduled_date |-> {}],
      [title |-> {},   priority |-> {"asap"},   scheduled_date |-> {}] }

\* one client with a session and the one without
ValidationClients == {1, NumClients}

ValidationInit ==
    /\ LoggedInInit
    /\ now = SampleDay * HoursPerDay
    /\ zone = "UTC"

ValidationNext ==
    \/ \E c \in ValidationClients, t \in RejectedTitles, ty \in GoalTypeInputs :
          GoalCreate(c, t, ty, <<>>)
    \/ \E c \in ValidationClients, id \in GoalIds, b \in RejectedGoalUpdates :
          GoalUpdate(c, id, b)
    \/ \E c \in ValidationClients, b \in RejectedTodoCreates : TodoCreate(c, b)
    \/ \E c \in ValidationClients, id \in TodoIds, b \in RejectedTodoUpdates :
          TodoUpdate(c, id, b)

SpecValidation == ValidationInit /\ [][ValidationNext]_vars

\* the step answers an authenticated create or update of a goal or todo whose
\* body has an empty title, a goal type outside short-term/long-term, a todo
\* priority outside low/medium/high/urgent, a progress outside 0..100 or a
\* goal status outside the four allowed values
FailsValidation ==
    /\ last'.status # 401
    /\ \E b \in last'.input :
          \/ last'.op = "goal_create" /\ (b.title = "" \/ b.goal_type \notin GoalTypes)
          \/ last'.op = "goal_update" /\
                \/ "" \in b.title
                \/ \E p \in b.progress : p < 0 \/ p > 100
                \/ \E st \in b.status : st \notin GoalStatuses
          \/ last'.op = "todo_create" /\
                (b.title = "" \/ \E pr \in b.priority : pr \notin Priorities)
          \/ last'.op = "todo_update" /\
                ("" \in b.title \/ \E pr \in b.priority : pr \notin Priorities)

\* C13: a create or update of a goal or todo that fails validation is
\* answered 400 and leaves every stored row, the activity log included,
\* unchanged
C13_RejectedStep == FailsValidation => (last'.status = 400 /\ UNCHANGED dbVars)

C13_InvalidIs400 == [][C13_RejectedStep]_vars

\* an update of a stored goal with progress 101 was answered 400 while the
\* same user's earlier progress update had been logged
C13_Witness_ProgressRejected ==
    /\ last.op = "goal_update"
    /\ last.status = 400
    /\ \E b \in last.input : b.progress = {101}
    /\ OwnsGoal(SessionUserId(last.c), last.id)
    /\ \E a \in activity_log : a.activity_type = "goal_progress"

\* ------------------------------------------------------------ activity log
\* every route that writes the activity log, with the routes that toggle
\* back, update or delete the row the log entry was written for
LogTodoBody == [title |-> "t", priority |-> {}, scheduled_date |-> {DashDate(SampleDay)}]
LogTodoUpdate == [title |-> {"t"}, priority |-> {"urgent"}, scheduled_date |-> {}]
LogGoalUpdate == [title |-> {}, progress |-> {30}, status |-> {}]
LogJournalBody ==
    [title |-> {}, content |-> "note", mood |-> {}, entry_date |-> {DashDate(SampleDay)},
     files |-> 0]

LogInit ==
    /\ LoggedInInit
    /\ now = SampleDay * HoursPerDay
    /\ zone = "UTC"

LogNext ==
    \/ \E c \in ValidationClients : TodoCreate(c, LogTodoBody)
    \/ \E c \in ValidationClients, id \in TodoIds : TodoToggle(c, id)
    \/ \E c \in ValidationClients, id \in TodoIds : TodoUpdate(c, id, LogTodoUpdate)
    \/ \E c \in ValidationClients, id \in TodoIds : TodoDelete(c, id)
    \/ \E c \in ValidationClients : GoalCreate(c, "g", "short-term", <<>>)
    \/ \E c \in ValidationClients, id \in GoalIds : GoalUpdate(c, id, LogGoalUpdate)
    \/ \E c \in ValidationClients, id \in GoalIds : GoalDelete(c, id)
    \/ \E c \in ValidationClients : JournalCreate(c, LogJournalBody)
    \/ \E c \in ValidationClients, id \in JournalIds : JournalUpdate(c, id, LogJournalBody)
    \/ \E c \in ValidationClients, id \in JournalIds : JournalDelete(c, id)

SpecLog == LogInit /\ [][LogNext]_vars

\* C14: no step deletes or modifies an activity-log row: every row of the
\* log before a step is a row of the log after it
C14_LogOnlyGrows == [][activity_log \subseteq activity_log']_vars

\* the completion of a todo is still in the log after the todo was toggled
\* back and deleted, beside the rows of a journal entry since deleted
C14_Witness_RowOutlivesItsCause ==
    /\ todos = {}
    /\ journal_entries = {}
    /\ \E a \in activity_log : a.activity_type = "todo_completed"
    /\ \E a \in activity_log : a.activity_type = "journal"
    /\ last.op \in {"todo_delete", "journal_delete"}
    /\ last.status = 200

\* ----------------------------------------------------------------- progress
\* the two writers of goals.progress: PUT /api/goals/:id with a progress at
\* and beyond both ends of the validator's range, and the milestone toggle
ProgressInputs == {0 - 1, 0, 100, 101}

ProgressBodies == {[title |-> {}, progress |-> {p}, status |-> {}] : p \in ProgressInputs}

ProgressInit ==
    /\ LoggedInInit
    /\ now = SampleDay * HoursPerDay
    /\ zone = "UTC"

ProgressNext ==
    \/ \E c \in ValidationClients, ms \in MilestoneInputs :
          GoalCreate(c, "g", "short-term", ms)
    \/ \E c \in ValidationClients, id \in GoalIds, b \in ProgressBodies : GoalUpdate(c, id, b)
    \/ \E c \in ValidationClients, id \in GoalIds : MilestoneAdd(c, id, "m")
    \/ \E c \in ValidationClients, g \in GoalIds, m \in MilestoneIds : MilestoneToggle(c, g, m)
    \/ \E c \in ValidationClients, g \in GoalIds, m \in MilestoneIds : MilestoneDelete(c, g, m)

SpecProgress == ProgressInit /\ [][ProgressNext]_vars

\* C15: the progress of every stored goal is an integer from 0 to 100
C15_ProgressInRange == \A g \in goals : g.progress \in 0..100

\* one goal holds the 100 a goal update set and another the 50 the toggle
\* computed from one completed milestone of two
C15_Witness_BothWriters ==
    /\ \E g \in goals : g.progress = 100 /\ MilestonesOf(goal_milestones, g.id) = {}
    /\ \E g \in goals : /\ g.progress = 50
                        /\ MilestoneTotal(goal_milestones, g.id) = 2
                        /\ MilestoneCompleted(goal_milestones, g.id) = 1

\* ------------------------------------------------- notification settings
\* routes/notifications.js, mounted behind requireAuth.
\* SELECT * FROM notification_settings WHERE user_id = ?
MutNoSettingsFound(userId) == {}

SettingsOf(userId) == {s \in notification_settings : s.user_id = userId}

\* GET /api/notifications/settings: the row of the session user, inserted
\* with the schema's defaults first when the SELECT finds none
SettingsGet(c) ==
    IF ~RequireAuth(c) THEN Unauthorized("settings_get", c)
    ELSE
        LET userId == SessionUserId(c)
            id == seq.notification_settings + 1
        IN  /\ IF SettingsOf(userId) = {}
               THEN /\ notification_settings' =
                          notification_settings \cup {SettingsRow(id, userId)}
                    /\ seq' = [seq EXCEPT !.notification_settings = id]
               ELSE UNCHANGED <<notification_settings, seq>>
            /\ last' = Response("settings_get", c, 200, userId, 0, FALSE,
                                ByRowId({s \in notification_settings' : s.user_id = userId}))
            /\ UNCHANGED <<users, session, journalVars, goalVars, todoVars, activity_log,
                           envVars>>

\* the values of a boolean field of a JSON body: true, false, the string
\* 'false' (isBoolean() accepts it) and a text isBoolean() refuses
BooleanInputs == {"true", "false", "'false'", "maybe"}

\* reminder_enabled ? 1 : 0 -- only the JSON false is falsy, a string is not
Truthy(v) == IF v = "false" THEN 0 ELSE 1

SettingsBodies ==
    { [reminder_enabled |-> {b}, motivation_enabled |-> {}, pending_threshold |-> {}] :
         b \in BooleanInputs }
    \cup { [reminder_enabled |-> {}, motivation_enabled |-> {"false"},
            pending_threshold |-> {t}] : t \in {5, 11} }

\* isBoolean() on both flags, isInt({ min: 1, max: 10 }) on the threshold
SettingsValid(body) ==
    /\ \A b \in body.reminder_enabled \cup body.motivation_enabled : b # "maybe"
    /\ \A t \in body.pending_threshold : t >= 1 /\ t <= 10

UpdatedSettings(s, body) ==
    [s EXCEPT !.reminder_enabled =
                  IF body.reminder_enabled = {} THEN @
                  ELSE Truthy(CHOOSE b \in body.reminder_enabled : TRUE),
              !.motivation_enabled =
                  IF body.motivation_enabled = {} THEN @
                  ELSE Truthy(CHOOSE b \in body.motivation_enabled : TRUE),
              !.pending_threshold =
                  IF body.pending_threshold = {} THEN @
                  ELSE CHOOSE t \in body.pending_threshold : TRUE]

\* PUT /api/notifications/settings: UPDATE ... WHERE user_id = ?, which
\* changes nothing when the user has no row
SettingsPut(c, body) ==
    IF ~RequireAuth(c) THEN Unauthorized("settings_put", c)
    ELSE IF ~SettingsValid(body) THEN
        /\ last' = WithInput(Response("settings_put", c, 400, 0, 0, FALSE, NoRows), body)
        /\ UNCHANGED <<authVars, journalVars, goalVars, todoVars, activity_log, seq, envVars>>
    ELSE
        /\ notification_settings' =
              { IF s.user_id = SessionUserId(c) THEN UpdatedSettings(s, body) ELSE s :
                   s \in notification_settings }
        /\ last' = WithInput(Response("settings_put", c, 200, 0, 0, FALSE, NoRows), body)
        /\ UNCHANGED <<users, session, journalVars, goalVars, todoVars, activity_log, seq,
                       envVars>>

\* a database with one user from before the settings table, who may or may
\* not have a settings row yet, logged in on client 1; the other clients
\* have no session and register
SettingsInit ==
    /\ users = {UserRow(1, UserNames[1], "secret1")}
    /\ \E had \in BOOLEAN :
          /\ notification_settings = IF had THEN {SettingsRow(1, 1)} ELSE {}
          /\ seq = [SeqZero EXCEPT !.users = 1,
                                   !.notification_settings = IF had THEN 1 ELSE 0]
    /\ session = [c \in Clients |-> IF c = 1 THEN SessionOf(1, UserNames[1]) ELSE {}]
    /\ journal_entries = {}
    /\ journal_images = {}
    /\ goals = {}
    /\ goal_milestones = {}
    /\ todos = {}
    /\ activity_log = {}
    /\ now = SampleDay * HoursPerDay
    /\ zone = "UTC"
    /\ inflight = {}
    /\ last = NoRequest

SettingsNext ==
    \/ \E c \in Clients \ {1}, u \in LoginNames : Register(c, u, "secret1")
    \/ \E r \in inflight : RegisterResume(r)
    \/ \E c \in Clients : SettingsGet(c)
    \/ \E c \in Clients, b \in SettingsBodies : SettingsPut(c, b)

SpecSettings == SettingsInit /\ [][SettingsNext]_vars

SettingsRowsOf(rows, userId) == {s \in rows : s.user_id = userId}

IsDefaultSettings(s) ==
    s.reminder_enabled = 1 /\ s.motivation_enabled = 1 /\ s.pending_threshold = 3

\* C16: after every step each user has at most one settings row; a
\* registration answered 201 leaves its new user with exactly one; a get of
\* the settings is answered 200 with the caller's row, and it inserts one row
\* with the defaults (reminders on, motivation on, threshold 3) when the
\* caller had none and no row when the caller had one
C16_SettingsStep ==
    /\ \A u \in users' : Cardinality(SettingsRowsOf(notification_settings', u.id)) <= 1
    /\ \A r \in inflight \ inflight' :
          (r.op = "register" /\ last'.status = 201) =>
             /\ last'.id \notin {u.id : u \in users}
             /\ Cardinality(SettingsRowsOf(notification_settings', last'.id)) = 1
    /\ (last'.op = "settings_get" /\ last'.status # 401) =>
          LET a == SessionUserId(last'.c)
              mine == SettingsRowsOf(notification_settings', a)
          IN  /\ last'.status = 200
              /\ Cardinality(mine) = 1
              /\ last'.rows = ByRowId(mine)
              /\ IF SettingsRowsOf(notification_settings, a) = {}
                 THEN /\ \A s \in mine : IsDefaultSettings(s)
                      /\ notification_settings' = notification_settings \cup mine
                 ELSE notification_settings' = notification_settings

C16_OneSettingsRowPerUser == [][C16_SettingsStep]_vars

\* the user from before the settings table got the default row from a get,
\* and a user created by register has a row of their own
C16_Witness_DefaultRowCreated ==
    /\ last.op = "settings_get"
    /\ last.status = 200
    /\ last.id = 1
    /\ \E s \in notification_settings : s.user_id = 1 /\ s.id > 1
    /\ \E s \in notification_settings : s.user_id = 2

\* ----------------------------------------------------- notification poller
\* utils/notifications.js.  The scheduler runs checkAndNotify at the half
\* hours of 9 to 21 local time and sendMotivationalNotification at 10, 14
\* and 18; both are synchronous and make no request.  A run is recorded in
\* last as a response of no client, its rows the notifications sent.
LocalHour == LocalTime(zone, now) % HoursPerDay

Notice(type, userId) == [type |-> type, user_id |-> userId]

\* users u JOIN notification_settings ns WHERE ns.reminder_enabled = 1
RemindedUsers ==
    {u \in users : \E ns \in notification_settings :
                       ns.user_id = u.id /\ ns.reminder_enabled = 1}

\* the notifications of one user of the forEach, in the order they are sent
NoticesFor(u) ==
    LET ns == CHOOSE x \in notification_settings : x.user_id = u.id
        today == ISODate(now)
    IN  (IF Cardinality(PendingTodos(u.id, today)) >= ns.pending_threshold
         THEN <<Notice("todo-reminder", u.id)>> ELSE <<>>)
        \o (IF Cardinality(OverdueTodos(u.id, today)) > 0
            THEN <<Notice("overdue-reminder", u.id)>> ELSE <<>>)

MutPollSwitchesMotivationOff ==
    /\ LocalHour \in {10, 14, 18}
    /\ notification_settings' =
          {[ns EXCEPT !.motivation_enabled = 0] : ns \in notification_settings}
    /\ last' = Response("motivation", 0, 0, 0, 0, FALSE, <<Notice("motivation", 0)>>)
    /\ UNCHANGED <<users, session, journalVars, goalVars, todoVars, activity_log, seq,
                   envVars>>

checkAndNotify ==
    /\ LocalHour \in 9..21
    /\ LET order == ByRowId(RemindedUsers)
       IN  last' = Response("check_and_notify", 0, 0, 0, 0, FALSE,
                            Flatten([i \in 1..Len(order) |-> NoticesFor(order[i])]))
    /\ UNCHANGED <<authVars, journalVars, goalVars, todoVars, activity_log, seq, envVars>>

sendMotivationalNotification ==
    /\ LocalHour \in {10, 14, 18}
    /\ last' = Response("motivation", 0, 0, 0, 0, FALSE,
                        IF \E u \in users, ns \in notification_settings :
                               ns.user_id = u.id /\ ns.motivation_enabled = 1
                        THEN <<Notice("motivation", 0)>> ELSE <<>>)
    /\ UNCHANGED <<authVars, journalVars, goalVars, todoVars, activity_log, seq, envVars>>

PollTodoBodies ==
    { [title |-> "t", priority |-> {}, scheduled_date |-> {DashDate(SampleDay)}],
      [title |-> "t", priority |-> {}, scheduled_date |-> {DashDate(SampleDay - 1)}] }

PollSettingsBodies ==
    { [reminder_enabled |-> {}, motivation_enabled |-> {}, pending_threshold |-> {1}],
      [reminder_enabled |-> {"false"}, motivation_enabled |-> {"false"},
       pending_threshold |-> {}] }

\* the server at 8 (before the schedule) or at 10 local time
PollInit ==
    /\ LoggedInInit
    /\ now \in {SampleDay * HoursPerDay + 8, SampleDay * HoursPerDay + 10}
    /\ zone = "UTC"

PollNext ==
    \/ checkAndNotify
    \/ sendMotivationalNotification
    \/ \E c \in ValidationClients, b \in PollTodoBodies : TodoCreate(c, b)
    \/ \E c \in ValidationClients, id \in TodoIds : TodoToggle(c, id)
    \/ \E c \in ValidationClients, b \in PollSettingsBodies : SettingsPut(c, b)
    \/ Login(NumClients, UserNames[1], "secret1")
    \/ \E r \in inflight : LoginResume(r)

SpecPoll == PollInit /\ [][PollNext]_vars

PollOps == {"check_and_notify", "motivation"}

\* C17: a step that is a run of the poller changes no row of any table and
\* no session, and every request that waits at an await still waits as it was
\* (the latest response stays the poller's while a request suspends, which
\* changes no row either)
C17_PollStep ==
    last'.op \in PollOps => (UNCHANGED <<dbVars, session>> /\ inflight \subseteq inflight')

C17_PollerReadsOnly == [][C17_PollStep]_vars

\* the pending/overdue check sent a task reminder and an overdue notice
\* while a login was waiting at its await
C17_Witness_PollBesideRequest ==
    /\ last.op = "check_and_notify"
    /\ \E i, j \in DOMAIN last.rows :
          last.rows[i].type = "todo-reminder" /\ last.rows[j].type = "overdue-reminder"
    /\ inflight # {}

\* ------------------------------------------------------------ todo listing
\* todos created with the two date forms isDate() accepts and with each
\* priority rank, then listed
OrderDates == {DashDate(SampleDay), DashDate(SampleDay - 1), SlashDate(SampleDay - 1)}

OrderTodoBodies ==
    {[title |-> "t", priority |-> p, scheduled_date |-> {d}] :
        p \in {{}, {"urgent"}, {"low"}}, d \in OrderDates}

TodoOrderNext ==
    \/ \E c \in Clients, b \in OrderTodoBodies : TodoCreate(c, b)
    \/ \E c \in Clients, q \in TodoQueries : TodoList(c, q)
    \/ \E c \in Clients : TodoToday(c)

SpecTodoOrder == TodosInit /\ [][TodoOrderNext]_vars

\* the rank the listing is to follow: urgent, high, medium, low
RankOf(p) == CHOOSE n \in 1..4 : <<"urgent", "high", "medium", "low">>[n] = p

\* t is scheduled on the day a filter names, whatever the form of the dates
MatchesFilters(t, q) ==
    /\ \A d \in q.date : t.scheduled_date.day = d.day
    /\ \A d \in q.startDate : d.day <= t.scheduled_date.day
    /\ \A d \in q.endDate : t.scheduled_date.day <= d.day
    /\ \A b \in q.completed : (t.is_completed = 1) = (b = "true")
    /\ \A p \in q.priority : t.priority = p

\* t may come before u: earlier day, or the same day and a higher rank, or
\* the same day and rank and not created later
ByDayRankCreation(t, u) ==
    \/ t.scheduled_date.day < u.scheduled_date.day
    \/ /\ t.scheduled_date.day = u.scheduled_date.day
       /\ \/ RankOf(t.priority) < RankOf(u.priority)
          \/ RankOf(t.priority) = RankOf(u.priority) /\ t.id <= u.id

ByRankCreation(t, u) ==
    \/ RankOf(t.priority) < RankOf(u.priority)
    \/ RankOf(t.priority) = RankOf(u.priority) /\ t.id <= u.id

\* C18: the todo listing answers exactly the caller's todos that match the
\* filters, each once, ordered by scheduled date, then priority rank, then
\* creation; the today listing is ordered by priority rank, then creation
C18_ListedInOrder ==
    /\ (last.op = "todo_list" /\ last.status = 200) =>
          LET a == SessionUserId(last.c)
              matching == {t \in todos : /\ t.user_id = a
                                         /\ \A q \in last.input : MatchesFilters(t, q)}
          IN  /\ Range(last.rows) = matching
              /\ Len(last.rows) = Cardinality(matching)
              /\ \A i, j \in DOMAIN last.rows :
                    i < j => ByDayRankCreation(last.rows[i], last.rows[j])
    /\ (last.op = "todo_today" /\ last.status = 200) =>
          \A i, j \in DOMAIN last.rows : i < j => ByRankCreation(last.rows[i], last.rows[j])

\* ------------------------------------------------------------------- tips
\* the entries of each curated list, and the entries one answer carries
TipsPerList == 5

TipsReturned == 3

TipsContexts == {"todos", "goals", "motivation", "journal"}

todoTips == [n \in 1..TipsPerList |-> [list |-> "todoTips", n |-> n]]

goalTips == [n \in 1..TipsPerList |-> [list |-> "goalTips", n |-> n]]

motivationTips == [n \in 1..TipsPerList |-> [list |-> "motivationTips", n |-> n]]

\* the first entries of list.sort(() => 0.5 - Math.random()): the comparator
\* is random, so any arrangement of the list can come out of the sort
Shuffled(list) ==
    {t \in [1..TipsReturned -> Range(list)] : \A i, j \in 1..TipsReturned : t[i] = t[j] => i = j}

\* getFallbackTips: the texts a fallback answer may carry, joined in order
getFallbackTips(context) ==
    IF context = "todos" THEN Shuffled(todoTips)
    ELSE IF context = "goals" THEN Shuffled(goalTips)
    ELSE Shuffled(motivationTips)

\* buildPrompt reads items.forEach or items.pendingCount for the three
\* contexts it knows, which throws when the body has no items
BuildPromptThrows(context, hasItems) ==
    context \in {"todos", "goals", "motivation"} /\ ~hasItems

TipsBody(tips, source) == <<[tips |-> tips, source |-> source]>>

Curated(c, context, body) ==
    \E tips \in getFallbackTips(context) :
        last' = WithInput(Response("ai_tips", c, 200, SessionUserId(c), 0, FALSE,
                                   TipsBody(tips, "curated")), body)

\* what the completion service may do with a request: reject it, answer with
\* no choice, answer with a text, or answer with an empty (or null) content
CompletionOutcomes == {"rejected", "no_choice", "text", "empty"}

\* POST /api/ai/tips up to its await: curated tips when no key is configured
\* or when building the prompt throws, else the call to the service is sent
AiTips(c, context, hasItems, keyConfigured) ==
    IF ~RequireAuth(c) THEN Unauthorized("ai_tips", c)
    ELSE
        LET body == [context |-> context, hasItems |-> hasItems,
                     keyConfigured |-> keyConfigured, outcome |-> "none"]
        IN  /\ IF ~keyConfigured \/ BuildPromptThrows(context, hasItems)
               THEN /\ Curated(c, context, body)
                    /\ UNCHANGED inflight
               ELSE /\ CanSuspend(c)
                    /\ inflight' = inflight \cup
                          {[op |-> "ai_tips", c |-> c, stage |-> "completion",
                            userId |-> SessionUserId(c), context |-> context,
                            hasItems |-> hasItems]}
                    /\ UNCHANGED last
            /\ UNCHANGED <<authVars, journalVars, goalVars, todoVars, activity_log, seq,
                           now, zone>>

\* the tips request after the await: the content of the first choice is sent
\* as it came, source 'ai'; a rejection or a missing choice throws into the
\* catch, which answers with curated tips
AiTipsResume(r, outcome) ==
    /\ r \in inflight /\ r.op = "ai_tips"
    /\ inflight' = inflight \ {r}
    /\ LET body == [context |-> r.context, hasItems |-> r.hasItems,
                    keyConfigured |-> TRUE, outcome |-> outcome]
       IN  IF outcome \in {"rejected", "no_choice"}
           THEN \E tips \in getFallbackTips(r.context) :
                   last' = WithInput(Response("ai_tips", r.c, 200, r.userId, 0, FALSE,
                                              TipsBody(tips, "curated")), body)
           ELSE last' = WithInput(Response("ai_tips", r.c, 200, r.userId, 0, FALSE,
                                     TipsBody(IF outcome = "text" THEN <<"completion">>
                                              ELSE <<>>, "ai")), body)
    /\ UNCHANGED <<authVars, journalVars, goalVars, todoVars, activity_log, seq, now, zone>>

TipsNext ==
    \/ \E c \in ValidationClients, context \in TipsContexts, hasItems, key \in BOOLEAN :
          AiTips(c, context, hasItems, key)
    \/ \E r \in inflight, outcome \in CompletionOutcomes : AiTipsResume(r, outcome)

SpecTips == TodosInit /\ [][TipsNext]_vars

CuratedListOf(context) ==
    IF context = "todos" THEN todoTips
    ELSE IF context = "goals" THEN goalTips ELSE motivationTips

\* three distinct entries of the curated list of the context
IsCuratedAnswer(tips, context) ==
    /\ Len(tips) = TipsReturned
    /\ \A i \in 1..TipsReturned : tips[i] \in Range(CuratedListOf(context))
    /\ \A i, j \in 1..TipsReturned : tips[i] = tips[j] => i = j

TipsAnswered == last.op = "ai_tips" /\ last.status # 401

\* the status and the source of an answered tips request follow the key and
\* the outcome of the call
C19_SourceFollowsCall ==
    TipsAnswered =>
        \A b \in last.input :
            /\ last.status = 200
            /\ Len(last.rows) = 1
            /\ (~b.keyConfigured \/ b.outcome \in {"none", "rejected", "no_choice"}) =>
                  /\ last.rows[1].source = "curated"
                  /\ IsCuratedAnswer(last.rows[1].tips, b.context)
            /\ last.rows[1].source = "ai" => b.outcome \in {"text", "empty"}
            /\ last.rows[1].source \in {"curated", "ai"}

\* C19: a tips request is always answered 200 with non-empty tips, three
\* distinct entries of the curated list of the context and source 'curated'
\* when no key is configured or the call fails, and source 'ai' only when
\* the call succeeded
C19_AlwaysNonEmptyTips ==
    /\ C19_SourceFollowsCall
    /\ TipsAnswered => last.rows[1].tips # <<>>

\* ------------------------------------------------------------------ pages
\* the pages app.get() serves to a session, and the login page
ProtectedPages == {"/dashboard", "/journal", "/goals", "/todos", "/settings"}

PagePaths == ProtectedPages \cup {"/"}

PageFile(path) == IF path = "/" THEN "index.html" ELSE path

SentFile(c, path) ==
    Response("page", c, 200, 0, 0, FALSE, <<[file |-> PageFile(path), location |-> ""]>>)

Redirected(c, location) ==
    Response("page", c, 302, 0, 0, FALSE, <<[file |-> "", location |-> location]>>)

\* express.static(public), mounted ahead of the page routes: a request for
\* '/' is a request for the directory, answered with its index.html when the
\* file is there; the page paths name no file of the directory
ServedStatic(path, hasIndex) == path = "/" /\ hasIndex

\* GET of a page path: the static middleware first, then the page route;
\* sendFile of a missing index.html ends in 404
PageGet(c, path, hasIndex) ==
    /\ last' = WithInput(
          IF ServedStatic(path, hasIndex) THEN SentFile(c, path)
          ELSE IF path = "/"
          THEN IF RequireAuth(c) THEN Redirected(c, "/dashboard")
               ELSE Response("page", c, 404, 0, 0, FALSE, NoRows)
          ELSE IF ~RequireAuth(c) THEN Redirected(c, "/")
          ELSE SentFile(c, path),
          [path |-> path, hasIndex |-> hasIndex])
    /\ UNCHANGED <<authVars, journalVars, goalVars, todoVars, activity_log, seq, envVars>>

PagesNext ==
    \/ \E c \in Clients, path \in PagePaths, hasIndex \in BOOLEAN : PageGet(c, path, hasIndex)
    \/ \E c \in Clients : Login(c, UserNames[1], "secret1")
    \/ \E r \in inflight : LoginResume(r)
    \/ \E c \in Clients : Logout(c)

SpecPages == TodosInit /\ [][PagesNext]_vars

C20_PageStep ==
    (last'.op = "page" /\ last' # last) =>
        \A b \in last'.input :
            /\ (b.path \in ProtectedPages /\ ~RequireAuth(last'.c)) =>
                  last'.status = 302 /\ last'.rows[1].location = "/"
            /\ (b.path \in ProtectedPages /\ RequireAuth(last'.c)) =>
                  last'.status = 200 /\ last'.rows[1].file = b.path
            /\ (b.path = "/" /\ RequireAuth(last'.c)) =>
                  last'.status = 302 /\ last'.rows[1].location = "/dashboard"

\* C20: a page request for dashboard, journal, goals, todos or settings
\* without a session is redirected to '/', one with a session is served the
\* page, and a request for '/' with a session is redirected to the dashboard
C20_PagesFollowSession == [][C20_PageStep]_vars

\* ------------------------------------------------------- toggle and the log
\* the rows a step appended to the activity log
AppendedLog == activity_log' \ activity_log

C21_ToggleStep ==
    last'.op = "todo_toggle" =>
        /\ activity_log \subseteq activity_log'
        /\ IF last'.status = 200 /\ Row(todos', last'.id).is_completed = 1
           THEN /\ Cardinality(AppendedLog) = 1
                /\ \A a \in AppendedLog :
                      /\ a.user_id = SessionUserId(last'.c)
                      /\ a.activity_type = "todo_completed"
           ELSE AppendedLog = {}

\* C21: a todo toggle appends exactly one 'todo_completed' activity-log row
\* for the caller when the todo becomes completed, and appends none when the
\* todo becomes incomplete or when the request is answered 404
C21_ToggleLogsCompletion == [][C21_ToggleStep]_vars

\* a todo was completed and toggled back: the log holds the one row of the
\* completion and nothing for the way back
C21_Witness_LoggedOnceThenToggledBack ==
    /\ last.op = "todo_toggle" /\ last.status = 200 /\ ~last.flag
    /\ Row(todos, last.id).is_completed = 0
    /\ Cardinality({a \in activity_log : a.activity_type = "todo_completed"
                                         /\ a.user_id = SessionUserId(last.c)}) = 1

\* ================================================================ heatmap
\* routes/stats.js: GET /api/stats/heatmap.  For this route the days of the
\* model span a new year: the days from NewYearDay on lie in year 1, the days
\* before it in year 0.
NewYearDay == 3

YearOf(day) == IF day < NewYearDay THEN 0 ELSE 1

Years == {0, 1}

\* strftime('%Y', column): NULL for NULL and for any text that is not
\* 'YYYY-MM-DD...', the year otherwise
StrftimeYear(column) ==
    {YearOf(d.day) : d \in {e \in column : ~e.slash}}

\* the three GROUP BY queries, each a function from its date keys to COUNT(*)
HeatmapActivities(userId, year) ==
    LET rows == {a \in activity_log : a.user_id = userId /\ YearOf(a.activity_date) = year}
    IN  [k \in {DashDate(a.activity_date) : a \in rows} |->
            Cardinality({a \in rows : DashDate(a.activity_date) = k})]

HeatmapCompletedTodos(userId, year) ==
    LET rows == {t \in todos : /\ t.user_id = userId
                               /\ t.is_completed = 1
                               /\ \E stamp \in t.completed_at : YearOf(ISODate(stamp)) = year}
        DateOf(t) == DashDate(ISODate(CHOOSE stamp \in t.completed_at : TRUE))
    IN  [k \in {DateOf(t) : t \in rows} |-> Cardinality({t \in rows : DateOf(t) = k})]

HeatmapJournalEntries(userId, year) ==
    LET rows == {j \in journal_entries : j.user_id = userId /\ StrftimeYear(j.entry_date) = {year}}
    IN  [k \in UNION {j.entry_date : j \in rows} |->
            Cardinality({j \in rows : j.entry_date = {k}})]

CountIn(counts, k) == IF k \in DOMAIN counts THEN counts[k] ELSE 0

\* heatmapData[item.activity_date] = (heatmapData[item.activity_date] || 0) + item.count
MergedHeatmap(a, t, j) ==
    [k \in DOMAIN a \cup DOMAIN t \cup DOMAIN j |-> CountIn(a, k) + CountIn(t, k) + CountIn(j, k)]

\* year || new Date().getFullYear()
TargetYear(year) ==
    IF year = {} THEN YearOf(LocalTime(zone, now) \div HoursPerDay)
    ELSE CHOOSE y \in year : TRUE

StatsHeatmap(c, year) ==
    IF ~RequireAuth(c) THEN Unauthorized("stats_heatmap", c)
    ELSE
        LET userId == SessionUserId(c)
            y == TargetYear(year)
        IN  /\ last' = WithInput(
                  Response("stats_heatmap", c, 200, userId, 0, FALSE,
                           MergedHeatmap(HeatmapActivities(userId, y),
                                         HeatmapCompletedTodos(userId, y),
                                         HeatmapJournalEntries(userId, y))),
                  [year |-> year])
            /\ UNCHANGED <<authVars, journalVars, goalVars, todoVars, activity_log, seq,
                           envVars>>

HeatmapNext ==
    \E c \in Clients, year \in {{}} \cup {{y} : y \in Years} : StatsHeatmap(c, year)

SpecHeatmap == StreakInit /\ [][HeatmapNext]_vars

\* the number of the three kinds of rows of a user on a day
HeatmapExpected(userId, day) ==
    Cardinality({a \in activity_log : a.user_id = userId /\ a.activity_date = day})
    + Cardinality({t \in todos : /\ t.user_id = userId
                                 /\ t.is_completed = 1
                                 /\ \E stamp \in t.completed_at : ISODate(stamp) = day})
    + Cardinality({j \in journal_entries :
                      j.user_id = userId /\ \E e \in j.entry_date : e.day = day})

\* C22: for a requested year, the heatmap value of each date is the number of
\* the caller's activity-log rows with that date, plus the number of the
\* caller's completed todos completed on that date, plus the number of the
\* caller's journal entries with that entry date; dates of that year with
\* none of the three are absent, and other users' rows never contribute
C22_HeatmapCountsActivity ==
    (last.op = "stats_heatmap" /\ last.status = 200) =>
        \A q \in last.input : \A y \in q.year :
            /\ \A k \in DOMAIN last.rows : YearOf(k.day) = y
            /\ \A day \in Days :
                  YearOf(day) = y =>
                     IF HeatmapExpected(last.id, day) = 0
                     THEN \A k \in DOMAIN last.rows : k.day # day
                     ELSE /\ DashDate(day) \in DOMAIN last.rows
                          /\ last.rows[DashDate(day)] = HeatmapExpected(last.id, day)

\* --------------------------------------------------- reminders of one poll
\* the poll beside todos created with either date form isDate() accepts,
\* scheduled today or the day before
ReminderTodoBodies ==
    {[title |-> "t", priority |-> {}, scheduled_date |-> {d}] :
        d \in {DashDate(SampleDay), SlashDate(SampleDay), DashDate(SampleDay - 1),
               SlashDate(SampleDay - 1)}}

RemindersNext ==
    \/ checkAndNotify
    \/ \E c \in ValidationClients, b \in ReminderTodoBodies : TodoCreate(c, b)
    \/ \E c \in ValidationClients, id \in TodoIds : TodoToggle(c, id)
    \/ \E c \in ValidationClients, b \in PollSettingsBodies : SettingsPut(c, b)

SpecReminders == PollInit /\ [][RemindersNext]_vars

RemindersEnabled(userId) ==
    \E ns \in notification_settings : ns.user_id = userId /\ ns.reminder_enabled = 1

ThresholdReached(userId) ==
    \E ns \in notification_settings :
        /\ ns.user_id = userId
        /\ Cardinality({t \in todos : /\ t.user_id = userId
                                      /\ t.is_completed = 0
                                      /\ t.scheduled_date.day = Today}) >= ns.pending_threshold

HasOverdue(userId) ==
    \E t \in todos : t.user_id = userId /\ t.is_completed = 0 /\ t.scheduled_date.day < Today

Sent(type, userId) == \E i \in DOMAIN last.rows : last.rows[i] = Notice(type, userId)

\* C23: during one poll, a task reminder is sent for a user if and only if
\* that user has reminders enabled and the number of their incomplete todos
\* scheduled today is at least their pending threshold, and an overdue notice
\* is sent for a user if and only if that user has reminders enabled and has
\* at least one incomplete todo scheduled before today
C23_RemindersFollowTodos ==
    last.op = "check_and_notify" =>
        \A u \in users :
            /\ Sent("todo-reminder", u.id) <=> (RemindersEnabled(u.id) /\ ThresholdReached(u.id))
            /\ Sent("overdue-reminder", u.id) <=> (RemindersEnabled(u.id) /\ HasOverdue(u.id))

\* ------------------------------------------------------ reschedule-overdue
\* todos of either date form, scheduled today or the day before, completed
\* or not, rescheduled to today, to the day before or to a slash-form date
RescheduleDates ==
    {{}, {DashDate(SampleDay)}, {DashDate(SampleDay - 1)}, {SlashDate(SampleDay + 1)}}

RescheduleNext ==
    \/ \E c \in Clients, b \in ReminderTodoBodies : TodoCreate(c, b)
    \/ \E c \in Clients, id \in TodoIds : TodoToggle(c, id)
    \/ \E c \in Clients, d \in RescheduleDates : TodoRescheduleOverdue(c, d)
    \/ \E c \in Clients : TodoOverdue(c)

SpecReschedule == TodosInit /\ [][RescheduleNext]_vars

\* the caller's incomplete todos scheduled before today
ScheduledBeforeToday(table, userId) ==
    {t \in table : t.user_id = userId /\ t.is_completed = 0 /\ t.scheduled_date.day < Today}

C24_RescheduleStep ==
    last'.op = "todo_reschedule_overdue" =>
        /\ last'.status = 400 => (last'.input = {} /\ UNCHANGED dbVars)
        /\ last'.status = 200 =>
              \A q \in last'.input : \A d \in q.newDate :
                 LET moved == ScheduledBeforeToday(todos, SessionUserId(last'.c))
                 IN  /\ todos' = {IF t \in moved THEN [t EXCEPT !.scheduled_date = d] ELSE t :
                                     t \in todos}
                     /\ last'.id = Cardinality(moved)
                     /\ d.day >= Today =>
                           ScheduledBeforeToday(todos', SessionUserId(last'.c)) = {}

\* C24: reschedule-overdue with a new date moves exactly the caller's
\* incomplete todos scheduled before today to that date and reports their
\* number as count; completed todos, todos scheduled today or later and other
\* users' todos are unchanged; when the new date is today or later, the
\* caller has no overdue todo immediately afterwards; a request without a
\* new date is answered 400 and changes nothing
C24_RescheduleMovesOverdue == [][C24_RescheduleStep]_vars

\* ----------------------------------------------------------- bulk-complete
\* the todos of the caller whose ids a bulk-complete request lists
ListedOwnTodos(userId, ids) ==
    {t \in todos : t.user_id = userId /\ \E v \in Range(ids) : v.n = t.id}

BulkCompleted(userId, ids) ==
    {IF t \in ListedOwnTodos(userId, ids) THEN [t EXCEPT !.is_completed = 1, !.completed_at = {now}]
     ELSE t : t \in todos}

C25_AsStatedStep ==
    last'.op = "todo_bulk_complete" =>
        /\ last'.status \in {200, 400, 401}
        /\ last'.status # 200 => UNCHANGED dbVars
        /\ last'.status = 200 =>
              \A q \in last'.input :
                 todos' = BulkCompleted(SessionUserId(last'.c), q.ids)

C25_BulkStep ==
    last'.op = "todo_bulk_complete" =>
        /\ last'.status # 200 => UNCHANGED dbVars
        /\ last'.status = 400 <=> (RequireAuth(last'.c) /\ last'.input = {})
        /\ \A q \in last'.input :
              /\ last'.status = 500 <=> \E v \in Range(q.ids) : v.type = "boolean"
              /\ last'.status = 200 =>
                    /\ todos' = BulkCompleted(SessionUserId(last'.c), q.ids)
                    /\ UNCHANGED <<users, notification_settings, journal_entries,
                                   journal_images, goals, goal_milestones, activity_log>>

C26_StampIffCompleted ==
    \A t \in todos : (t.completed_at # {}) <=> (t.is_completed = 1)

\* a todo completed by bulk-complete was toggled back and lost its stamp,
\* beside a todo that is still completed and stamped
C26_Witness_StampClearedByToggle ==
    /\ last.op = "todo_toggle" /\ last.status = 200 /\ ~last.flag
    /\ activity_log = {}
    /\ Row(todos, last.id).completed_at = {}
    /\ \E t \in todos : t.is_completed = 1 /\ t.completed_at # {}

\* ====================================================== the streak walk
\* calculateStreak one iteration of its while (true) at a time.  The request
\* that is inside the loop is held in inflight with the loop's variables; the
\* handler is synchronous, so no other request is served until it has left.
StreakWalk(c, userId, currentDate, streak) ==
    [op |-> "calculate_streak", c |-> c, userId |-> userId, currentDate |-> currentDate,
     streak |-> streak]

\* const today = new Date(); let streak = 0; let currentDate = new Date(today)
StreakWalkStart(c) ==
    IF ~RequireAuth(c) THEN inflight = {} /\ Unauthorized("calculate_streak", c)
    ELSE
        /\ inflight = {}
        /\ inflight' = {StreakWalk(c, SessionUserId(c), now, 0)}
        /\ UNCHANGED <<authVars, journalVars, goalVars, todoVars, activity_log, seq, now, zone,
                       last>>

\* one iteration: activity on dateStr counts and steps back, today without
\* activity steps back, any other date breaks and the streak is returned
StreakWalkStep(r) ==
    /\ r \in inflight /\ r.op = "calculate_streak"
    /\ IF ActivityOn(r.userId, ISODate(r.currentDate))
       THEN /\ inflight' = {StreakWalk(r.c, r.userId, SetDateMinusOne(zone, r.currentDate),
                                       r.streak + 1)}
            /\ UNCHANGED last
       ELSE IF ISODate(r.currentDate) = ISODate(now)
       THEN /\ inflight' = {StreakWalk(r.c, r.userId, SetDateMinusOne(zone, r.currentDate),
                                       r.streak)}
            /\ UNCHANGED last
       ELSE /\ inflight' = {}
            /\ last' = Response("calculate_streak", r.c, 200, r.userId, 0, FALSE,
                                <<[current |-> r.streak, stopped |-> ISODate(r.currentDate)]>>)
    /\ UNCHANGED <<authVars, journalVars, goalVars, todoVars, activity_log, seq, now, zone>>

StreakWalkNext ==
    \/ \E c \in ValidationClients : StreakWalkStart(c)
    \/ \E r \in inflight : StreakWalkStep(r)

\* the loop runs to its end once entered: no iteration waits for anything
SpecStreakWalk ==
    StreakInit /\ [][StreakWalkNext]_vars /\ WF_vars(\E r \in inflight : StreakWalkStep(r))

\* the walk stopped on the first day before today on which the user has no
\* activity
StoppedOnFirstGap ==
    (last.op = "calculate_streak" /\ last.status = 200) =>
        LET S == ActivityDays(last.id)
            d == last.rows[1].stopped
        IN  /\ d < ISODate(now)
            /\ d \notin S
            /\ \A e \in (d + 1)..(ISODate(now) - 1) : e \in S

\* C27: the current-streak computation terminates for every stored state
\* with finitely many activity dates: the backward day-by-day walk stops at
\* the first day other than today that has no activity
C27_WalkStopsAtFirstGap ==
    /\ (inflight # {}) ~> (inflight = {})
    /\ []StoppedOnFirstGap

\* the part of it that holds: every walk that is entered is left, having
\* counted what calculateStreak returns
C27_WalkTerminates ==
    /\ (inflight # {}) ~> (inflight = {})
    /\ []((last.op = "calculate_streak" /\ last.status = 200) =>
             last.rows[1].current = calculateStreak(last.id))

\* ----------------------------------------------- longest against current
\* C28: in every reachable state and for every user, the longest streak
\* reported by the streaks endpoint is greater than or equal to the current
\* streak reported in the same response
C28_LongestAtLeastCurrent ==
    (last.op \in StreakRoutes /\ last.status = 200) =>
        last.rows[1].longest >= last.rows[1].current

\* ------------------------------------------- milestones and stored progress
C29_MilestoneStep ==
    /\ last'.op \in {"milestone_add", "milestone_delete"} => goals' = goals
    /\ \A g \in goals, h \in goals' :
          (g.id = h.id /\ g.progress # h.progress) =>
             \/ /\ last'.op = "milestone_toggle"
                /\ h.progress = MilestoneProgress(goal_milestones', h.id)
             \/ /\ last'.op = "goal_update"
                /\ \E b \in last'.input : b.progress = {h.progress}

\* C29: adding a milestone to a goal or deleting a milestone from it leaves
\* the goal's stored progress unchanged; progress is recomputed from
\* milestones only by a milestone toggle (the one other writer, the goal
\* update, stores the progress of its body)
C29_AddDeleteKeepProgress == [][C29_MilestoneStep]_vars

\* a milestone was added to a goal whose one milestone is completed: the
\* stored progress is still the 100 of the toggle
C29_Witness_AddedAfterToggle ==
    /\ last.op = "milestone_add" /\ last.status = 201
    /\ Row(goals, last.id).progress = 100
    /\ \E m, n \in MilestonesOf(goal_milestones, last.id) :
          m.is_completed = 1 /\ n.is_completed = 0

\* ------------------------------------------- journal update without a date
C30_UpdateStep ==
    last'.op = "journal_update" =>
        \A b \in last'.input :
            (b.content # "" /\ b.entry_date = {}) =>
                \A j \in journal_entries, k \in journal_entries' :
                    (j.id = last'.id /\ k.id = last'.id) => k.entry_date = j.entry_date

\* C30: updating a journal entry with a request that supplies content but no
\* entry date leaves the entry's stored entry date unchanged
C30_UpdateKeepsEntryDate == [][C30_UpdateStep]_vars

====
